---- MODULE Spec2Model ----
(***************************************************************************)
(* Model of the shoe-fit scoring engine of backend/core/views.py.          *)
(*                                                                         *)
(* Number representation.  The code computes with Python floats; the model *)
(* computes with integers in fixed units:                                  *)
(*   - lengths, widths and perimeters in hundredths of an inch,            *)
(*   - areas in hundredths of a square inch,                               *)
(*   - a ratio as a pair (numerator, denominator) of such integers, so     *)
(*     that every zone test of the code (ratio <= 1.02, ...) is decided    *)
(*     exactly by cross-multiplication,                                    *)
(*   - a sub-score in thousandths of a point (100 points = 100000),        *)
(*     rounded to the nearest thousandth,                                  *)
(*   - the composite score in tenths of a point, as round(x, 1) leaves it. *)
(* An optional argument (a value or Python's None) is a sequence of        *)
(* length 0 (None) or 1 (the value).                                       *)
(***************************************************************************)
EXTENDS Integers, Sequences, FiniteSets, TLC

VARIABLES user, shoe, shoe_type, call, scores, result, raised, shoe_row, dims,
          fit_category, threads, round_up,
          now, guest_sessions, foot_images, pending, response, completed_uploads,
          selector, workers

\* The database rows and requests of the API, and the price selector.
web_vars == <<now, guest_sessions, foot_images, pending, response, completed_uploads>>

selector_vars == <<selector, workers>>

scorer_vars == <<user, shoe, shoe_type, call, scores, result, raised, shoe_row, dims,
                 fit_category, threads, round_up>>

vars == <<user, shoe, shoe_type, call, scores, result, raised, shoe_row, dims,
          fit_category, threads, round_up, web_vars, selector_vars>>

-----------------------------------------------------------------------------
(* Optional values and integer helpers                                     *)

None == <<>>

Some(v) == <<v>>

IsNone(x) == x = None

\* Python truthiness of an optional number: None and 0 are falsy.
Truthy(x) == Len(x) = 1 /\ x[1] # 0

Abs(x) == IF x < 0 THEN -x ELSE x

Min(a, b) == IF a <= b THEN a ELSE b

Max(a, b) == IF a >= b THEN a ELSE b

\* k further decimal digits of the quotient q rem r of a division by d > 0.
RECURSIVE LongDiv(_, _, _, _)
LongDiv(q, r, d, k) ==
    IF k = 0 THEN <<q, r>>
    ELSE LongDiv(10 * q + ((10 * r) \div d), (10 * r) % d, d, k - 1)

\* 1000 * n / d to the nearest integer, for n >= 0 and d > 0.
MilliNat(n, d) ==
    LET s == LongDiv(n \div d, n % d, d, 3)
    IN  s[1] + (IF 2 * s[2] >= d THEN 1 ELSE 0)

\* 1000 * n / d to the nearest integer, for d > 0: a quotient of the code in
\* thousandths.
Milli(n, d) == IF n >= 0 THEN MilliNat(n, d) ELSE -MilliNat(-n, d)

\* Python's round(): n / d to the nearest integer, ties to the even one (d > 0).
SetMax(S) == CHOOSE x \in S : \A y \in S : y <= x

SetMin(S) == CHOOSE x \in S : \A y \in S : x <= y

\* "x is not None and x > 0"
Positive(x) == x # None /\ x[1] > 0

\* round(final_score, 1) of a float is a function of the float: where the model
\* leaves two neighbours open, round_up says which one the floats give.
float_round(values) == IF round_up THEN SetMax(values) ELSE SetMin(values)

RoundHalfEvenNat(n, d) ==
    LET q == n \div d
        r == n % d
    IN  IF 2 * r > d \/ (2 * r = d /\ q % 2 = 1) THEN q + 1 ELSE q

RoundHalfEven(n, d) ==
    IF n >= 0 THEN RoundHalfEvenNat(n, d) ELSE -RoundHalfEvenNat(-n, d)

\* Integer square root: the largest s with s * s <= n (n >= 0), by bisection.
RECURSIVE ISqrtIn(_, _, _)
ISqrtIn(n, lo, hi) ==
    IF lo >= hi THEN lo
    ELSE LET mid == (lo + hi + 1) \div 2
         IN  IF mid * mid <= n THEN ISqrtIn(n, mid, hi) ELSE ISqrtIn(n, lo, mid - 1)

ISqrt(n) == ISqrtIn(n, 0, 46340)

\* Quotient and remainder of a * b by c without overflow, two decimal digits of b
\* at a time (a, b >= 0, c > 0, 100 * c + 99 * a < 2^31).
RECURSIVE MulDivQR(_, _, _)
MulDivQR(a, b, c) ==
    IF b = 0 THEN <<0, 0>>
    ELSE LET rest == MulDivQR(a, b \div 100, c)
             n == 100 * rest[2] + a * (b % 100)
         IN  <<100 * rest[1] + (n \div c), n % c>>

\* floor(a * b / c)
MulDiv(a, b, c) == MulDivQR(a, b, c)[1]

\* A ratio n / d with its denominator made positive (d # 0).
RatioNum(n, d) == IF d < 0 THEN -n ELSE n

RatioDen(d) == IF d < 0 THEN -d ELSE d

-----------------------------------------------------------------------------
(* Module constants of views.py, ratios in hundredths                      *)

FIT_EXCELLENT == 85
FIT_GOOD == 65
FIT_FAIR == 45

PERIMETER_PERFECT_MIN == 90
PERIMETER_PERFECT_MAX == 108
PERIMETER_TIGHT_THRESHOLD == 112
PERIMETER_MAX_RATIO == 118

AREA_PERFECT_MIN == 88
AREA_PERFECT_MAX == 102
AREA_TIGHT_THRESHOLD == 108
AREA_MAX_RATIO == 115

LENGTH_TIGHT_THRESHOLD == 102
LENGTH_MODERATE_THRESHOLD == 105

WIDTH_PERFECT_THRESHOLD == 5
WIDTH_GOOD_THRESHOLD == 10
WIDTH_ACCEPTABLE_THRESHOLD == 15
WIDTH_MAX_THRESHOLD == 20

\* Shape factors, in hundredths.
FOOT_AREA_SHAPE_FACTOR == 70
SHOE_AREA_SHAPE_FACTOR == 75

\* The literal 3.14159 of the perimeter estimators, times 10^5.
PI_E5 == 314159

-----------------------------------------------------------------------------
(* Geometric estimators.  Arguments are optional numbers; the result is    *)
(* None or the estimate rounded to two decimals, as round(x, 2) leaves it. *)

\* length * width * factor, rounded to 2 decimals (hundredths of a sq in).
estimate_foot_area_from_dimensions(length_inches, width_inches) ==
    IF Truthy(length_inches) /\ Truthy(width_inches)
    THEN Some(RoundHalfEven(length_inches[1] * width_inches[1] * FOOT_AREA_SHAPE_FACTOR,
                            10000))
    ELSE None

estimate_shoe_area_from_dimensions(length_inches, width_inches) ==
    IF Truthy(length_inches) /\ Truthy(width_inches)
    THEN Some(RoundHalfEven(length_inches[1] * width_inches[1] * SHOE_AREA_SHAPE_FACTOR,
                            10000))
    ELSE None

\* An exception that propagates out of a call (a value of length 2, so that it is
\* neither None nor a number).
Raise == <<0, 0>>

IsRaise(x) == Len(x) = 2

\* Ramanujan's approximation as the code writes it, for l + w > 0 in hundredths:
\*   a, b = l/2, w/2;  h = ((a - b)/(a + b))^2
\*   perimeter = 3.14159 * (a + b) * (1 + 3h / (10 + sqrt(4 - 3h)))
\* The result is 2 * perimeter (a + b is (l + w)/2) in units of 10^-7 inch:
\* h and the correction term are carried to 6 decimals, the root to 4.
RamanujanE7(l, w) ==
    LET h == MulDiv((l - w) * (l - w), 1000000, (l + w) * (l + w))
        root == ISqrt((4000000 - 3 * h) * 100)
        corr == MulDiv(3 * h, 10000, 100000 + root)
    IN  MulDiv(1000000 + corr, PI_E5 * (l + w), 1000000)

\* What Python does with the expression for any non-zero l and w: a + b = 0
\* divides by zero, 4 - 3h < 0 makes the root complex and round() rejects it,
\* and a negative a + b gives the negative of the value for (-l, -w).
PerimeterE7(l, w) ==
    IF l + w = 0 \/ 3 * (l - w) * (l - w) > 4 * (l + w) * (l + w) THEN Raise
    ELSE IF l + w > 0 THEN Some(RamanujanE7(l, w))
    ELSE Some(-RamanujanE7(-l, -w))

\* round(2 * perimeter, 2).
estimate_foot_perimeter_from_dimensions(length_inches, width_inches) ==
    IF Truthy(length_inches) /\ Truthy(width_inches)
    THEN LET p == PerimeterE7(length_inches[1], width_inches[1])
         IN  IF IsRaise(p) THEN Raise ELSE Some(RoundHalfEven(p[1], 100000))
    ELSE None

\* round(2.1 * perimeter, 2) = round(1.05 * (2 * perimeter), 2).
estimate_shoe_perimeter_from_dimensions(length_inches, width_inches) ==
    IF Truthy(length_inches) /\ Truthy(width_inches)
    THEN LET p == PerimeterE7(length_inches[1], width_inches[1])
         IN  IF IsRaise(p) THEN Raise
             ELSE Some(RoundHalfEven(IF p[1] >= 0 THEN MulDiv(105, p[1], 100)
                                                     ELSE -MulDiv(105, -p[1], 100),
                                     100000))
    ELSE None

\* a * b / c and its remainder as MulDivQR, by the decimal digits of b: exact
\* while 10 * c + 9 * a < 2^31.
RECURSIVE MulDivWideQR(_, _, _)
MulDivWideQR(a, b, c) ==
    IF b = 0 THEN <<0, 0>>
    ELSE LET rest == MulDivWideQR(a, b \div 10, c)
             n == 10 * rest[2] + a * (b % 10)
         IN  <<10 * rest[1] + (n \div c), n % c>>

MulDivWide(a, b, c) == MulDivWideQR(a, b, c)[1]

\* The shoe-side estimators on a length and a width in 10^-4 inch, the unit of
\* the size table (9.9375 in is 99375); every length and width of the catalogue
\* is a positive multiple of 0.0025 in, and lq, wq count those.  The results are
\* in hundredths, as those of the estimators above.

\* round(x, 2) of a float product whose exact value is n / d hundredths (n >= 0):
\* the nearest hundredth, and either neighbour when the exact value is halfway,
\* where the rounding error of the float product decides (9.75 * 3.6 * 0.75
\* rounds to 26.33 and 10.25 * 3.6 * 0.75 to 27.67).
RoundFloat(n, d) ==
    LET q == n \div d
        r == n % d
    IN  IF 2 * r = d THEN {q, q + 1} ELSE IF 2 * r > d THEN {q + 1} ELSE {q}

\* round(length * width * 0.75, 2) = round(3 lq wq / 6400) hundredths: the set
\* of the values the call can return.
estimate_shoe_area_e4(length_e4, width_e4) ==
    LET lq == length_e4 \div 25
        wq == width_e4 \div 25
    IN  RoundFloat(3 * lq * wq, 6400)

\* round(2.1 * perimeter, 2), the expression of RamanujanE7 on lq and wq.
estimate_shoe_perimeter_e4(length_e4, width_e4) ==
    LET lq == length_e4 \div 25
        wq == width_e4 \div 25
        h == MulDivWide((lq - wq) * (lq - wq), 1000000, (lq + wq) * (lq + wq))
        root == ISqrt((4000000 - 3 * h) * 100)
        corr == MulDiv(3 * h, 10000, 100000 + root)
        sum == PI_E5 * ((lq + wq) \div 4) + ((PI_E5 * ((lq + wq) % 4)) \div 4)
        twice == MulDiv(1000000 + corr, sum, 1000000)
    IN  RoundHalfEven(MulDiv(105, twice, 100), 100000)

-----------------------------------------------------------------------------
(* Clearances by shoe type: length, width, perimeter in hundredths of an   *)
(* inch, area as a percentage.  Any other value selects the casual row.    *)

\* A table without the casual default: an unknown shoe type gets no allowance.
get_clearances_no_default(t) ==
    CASE t = "running" -> [length |-> 50, width |-> 8, perimeter |-> 40, area |-> 15]
      [] t = "hiking"  -> [length |-> 60, width |-> 12, perimeter |-> 60, area |-> 20]
      [] t = "work"    -> [length |-> 40, width |-> 8, perimeter |-> 30, area |-> 12]
      [] t = "casual"  -> [length |-> 25, width |-> 4, perimeter |-> 20, area |-> 10]
      [] OTHER         -> [length |-> 0, width |-> 0, perimeter |-> 0, area |-> 0]

\* The lookup with a hiking row below the casual one.
get_clearances_hiking_snug(t) ==
    CASE t = "running" -> [length |-> 50, width |-> 8, perimeter |-> 40, area |-> 15]
      [] t = "hiking"  -> [length |-> 10, width |-> 2, perimeter |-> 10, area |-> 5]
      [] t = "work"    -> [length |-> 40, width |-> 8, perimeter |-> 30, area |-> 12]
      [] OTHER         -> [length |-> 25, width |-> 4, perimeter |-> 20, area |-> 10]

\* The lookup with the roomier running row as the default.
get_clearances_running_default(t) ==
    CASE t = "hiking"  -> [length |-> 60, width |-> 12, perimeter |-> 60, area |-> 20]
      [] t = "work"    -> [length |-> 40, width |-> 8, perimeter |-> 30, area |-> 12]
      [] OTHER         -> [length |-> 50, width |-> 8, perimeter |-> 40, area |-> 15]

get_clearances_by_shoe_type(t) ==
    CASE t = "running" -> [length |-> 50, width |-> 8, perimeter |-> 40, area |-> 15]
      [] t = "hiking"  -> [length |-> 60, width |-> 12, perimeter |-> 60, area |-> 20]
      [] t = "work"    -> [length |-> 40, width |-> 8, perimeter |-> 30, area |-> 12]
      [] OTHER         -> [length |-> 25, width |-> 4, perimeter |-> 20, area |-> 10]

-----------------------------------------------------------------------------
(* Per-axis scoring of enhanced_score_shoe_4d.  Each operator takes the    *)
(* ratio of the code as numerator n and denominator d > 0 and returns the  *)
(* sub-score in thousandths of a point.  "excess / 0.02 * 15" of the code  *)
(* is (100n - 100d) / (100d) / 0.02 * 15 = 750 (n - d) / d, and so on.     *)

\* length_score without the cap and the floor of its last zone.
length_score_no_floor(n, d) ==
    IF 100 * n <= 95 * d THEN 85000 + Milli(1500 * n, 95 * d)
    ELSE IF 100 * n <= 100 * d THEN 95000 + Milli(5 * n, d)
    ELSE IF 100 * n <= LENGTH_TIGHT_THRESHOLD * d
         THEN 95000 - Milli(15 * (100 * n - 100 * d), 2 * d)
    ELSE IF 100 * n <= LENGTH_MODERATE_THRESHOLD * d
         THEN 80000 - Milli(25 * (100 * n - LENGTH_TIGHT_THRESHOLD * d), 3 * d)
    ELSE IF 100 * n <= 110 * d
         THEN 55000 - Milli(35 * (100 * n - LENGTH_MODERATE_THRESHOLD * d), 5 * d)
    ELSE 20000 - Milli(15 * (100 * n - 110 * d), 5 * d)

\* scores['length']: length_ratio = adjusted_foot['length'] / shoe_length.
length_score(n, d) ==
    IF 100 * n <= 95 * d THEN 85000 + Milli(1500 * n, 95 * d)
    ELSE IF 100 * n <= 100 * d THEN 95000 + Milli(5 * n, d)
    ELSE IF 100 * n <= LENGTH_TIGHT_THRESHOLD * d
         THEN 95000 - Milli(15 * (100 * n - 100 * d), 2 * d)
    ELSE IF 100 * n <= LENGTH_MODERATE_THRESHOLD * d
         THEN 80000 - Milli(25 * (100 * n - LENGTH_TIGHT_THRESHOLD * d), 3 * d)
    ELSE IF 100 * n <= 110 * d
         THEN 55000 - Milli(35 * (100 * n - LENGTH_MODERATE_THRESHOLD * d), 5 * d)
    ELSE Max(5000, 20000 - Milli(15 * Min(100 * n - 110 * d, 5 * d), 5 * d))

\* width_score without the cap and the floor of its last zone.
width_score_no_floor(n, d) ==
    IF 100 * n <= WIDTH_PERFECT_THRESHOLD * d THEN 100000 - Milli(200 * n, d)
    ELSE IF 100 * n <= WIDTH_GOOD_THRESHOLD * d
         THEN 90000 - Milli(20 * (100 * n - WIDTH_PERFECT_THRESHOLD * d), 5 * d)
    ELSE IF 100 * n <= WIDTH_ACCEPTABLE_THRESHOLD * d
         THEN 70000 - Milli(30 * (100 * n - WIDTH_GOOD_THRESHOLD * d), 5 * d)
    ELSE IF 100 * n <= WIDTH_MAX_THRESHOLD * d
         THEN 40000 - Milli(25 * (100 * n - WIDTH_ACCEPTABLE_THRESHOLD * d), 5 * d)
    ELSE 15000 - Milli(100 * n - WIDTH_MAX_THRESHOLD * d, d)

\* scores['width']: width_diff_ratio = abs(adjusted_foot['width'] - shoe_width)
\* / shoe_width; n is the width_diff.
width_score(n, d) ==
    IF 100 * n <= WIDTH_PERFECT_THRESHOLD * d THEN 100000 - Milli(200 * n, d)
    ELSE IF 100 * n <= WIDTH_GOOD_THRESHOLD * d
         THEN 90000 - Milli(20 * (100 * n - WIDTH_PERFECT_THRESHOLD * d), 5 * d)
    ELSE IF 100 * n <= WIDTH_ACCEPTABLE_THRESHOLD * d
         THEN 70000 - Milli(30 * (100 * n - WIDTH_GOOD_THRESHOLD * d), 5 * d)
    ELSE IF 100 * n <= WIDTH_MAX_THRESHOLD * d
         THEN 40000 - Milli(25 * (100 * n - WIDTH_ACCEPTABLE_THRESHOLD * d), 5 * d)
    ELSE Max(5000, 15000 - Milli(Min(100 * n - WIDTH_MAX_THRESHOLD * d, 10 * d), d))

\* width_axis with the signed difference for the absolute one.
width_axis_no_abs(adj_width, shoe_width) ==
    width_score(adj_width - shoe_width, shoe_width)

\* width_diff = abs(adjusted_foot['width'] - shoe_width), then the width zones.
width_axis(adj_width, shoe_width) ==
    width_score(Abs(adj_width - shoe_width), shoe_width)

\* The all-or-nothing scoring the zones replaced: 100 inside the perfect zone, 0
\* outside.
perimeter_score_binary(n, d) ==
    IF PERIMETER_PERFECT_MIN * d <= 100 * n /\ 100 * n <= PERIMETER_PERFECT_MAX * d
    THEN 100000
    ELSE 0

\* perimeter_score with a last zone that runs on down to 0.
perimeter_score_floor_zero(n, d) ==
    IF PERIMETER_PERFECT_MIN * d <= 100 * n /\ 100 * n <= PERIMETER_PERFECT_MAX * d
    THEN 100000
    ELSE IF 85 * d <= 100 * n /\ 100 * n < PERIMETER_PERFECT_MIN * d
         THEN 100000 - Milli(15 * (PERIMETER_PERFECT_MIN * d - 100 * n), 5 * d)
    ELSE IF 100 * n < 85 * d
         THEN Max(10000, 85000 - Milli(75 * Min(85 * d - 100 * n, 15 * d), 15 * d))
    ELSE IF PERIMETER_PERFECT_MAX * d < 100 * n /\ 100 * n <= PERIMETER_TIGHT_THRESHOLD * d
         THEN 100000 - Milli(25 * (100 * n - PERIMETER_PERFECT_MAX * d), 4 * d)
    ELSE IF 100 * n <= PERIMETER_MAX_RATIO * d
         THEN 75000 - Milli(50 * (100 * n - PERIMETER_TIGHT_THRESHOLD * d), 6 * d)
    ELSE Max(0, 25000 - Milli(2 * Min(100 * n - PERIMETER_MAX_RATIO * d, 15 * d), d))

\* scores['perimeter'] when both perimeters are truthy:
\* perim_ratio = adjusted_foot['perimeter'] / shoe_perimeter.
perimeter_score(n, d) ==
    IF PERIMETER_PERFECT_MIN * d <= 100 * n /\ 100 * n <= PERIMETER_PERFECT_MAX * d
    THEN 100000
    ELSE IF 85 * d <= 100 * n /\ 100 * n < PERIMETER_PERFECT_MIN * d
         THEN 100000 - Milli(15 * (PERIMETER_PERFECT_MIN * d - 100 * n), 5 * d)
    ELSE IF 100 * n < 85 * d
         THEN Max(10000, 85000 - Milli(75 * Min(85 * d - 100 * n, 15 * d), 15 * d))
    ELSE IF PERIMETER_PERFECT_MAX * d < 100 * n /\ 100 * n <= PERIMETER_TIGHT_THRESHOLD * d
         THEN 100000 - Milli(25 * (100 * n - PERIMETER_PERFECT_MAX * d), 4 * d)
    ELSE IF 100 * n <= PERIMETER_MAX_RATIO * d
         THEN 75000 - Milli(50 * (100 * n - PERIMETER_TIGHT_THRESHOLD * d), 6 * d)
    ELSE Max(5000, 25000 - Milli(2 * Min(100 * n - PERIMETER_MAX_RATIO * d, 10 * d), d))

\* The all-or-nothing scoring the zones replaced.
area_score_binary(n, d) ==
    IF AREA_PERFECT_MIN * d <= 100 * n /\ 100 * n <= AREA_PERFECT_MAX * d
    THEN 100000
    ELSE 0

\* scores['area'] when both areas are truthy:
\* area_ratio = adjusted_foot['area'] / shoe_area.
area_score(n, d) ==
    IF AREA_PERFECT_MIN * d <= 100 * n /\ 100 * n <= AREA_PERFECT_MAX * d
    THEN 100000
    ELSE IF 80 * d <= 100 * n /\ 100 * n < AREA_PERFECT_MIN * d
         THEN 100000 - Milli(10 * (AREA_PERFECT_MIN * d - 100 * n), 8 * d)
    ELSE IF 100 * n < 80 * d
         THEN Max(20000, 90000 - Milli(70 * Min(80 * d - 100 * n, 20 * d), 20 * d))
    ELSE IF AREA_PERFECT_MAX * d < 100 * n /\ 100 * n <= AREA_TIGHT_THRESHOLD * d
         THEN 100000 - Milli(20 * (100 * n - AREA_PERFECT_MAX * d), 6 * d)
    ELSE IF 100 * n <= AREA_MAX_RATIO * d
         THEN 80000 - Milli(50 * (100 * n - AREA_TIGHT_THRESHOLD * d), 7 * d)
    ELSE Max(10000, 30000 - Milli(2 * Min(100 * n - AREA_MAX_RATIO * d, 10 * d), d))

\* The zone logic written out a second time in estimate_perimeter_score, on
\* ratio = user_perim / shoe_perim.
estimate_perimeter_zones(n, d) ==
    IF PERIMETER_PERFECT_MIN * d <= 100 * n /\ 100 * n <= PERIMETER_PERFECT_MAX * d
    THEN 100000
    ELSE IF 85 * d <= 100 * n /\ 100 * n < PERIMETER_PERFECT_MIN * d
         THEN 100000 - Milli(15 * (PERIMETER_PERFECT_MIN * d - 100 * n), 5 * d)
    ELSE IF 100 * n < 85 * d
         THEN Max(10000, 85000 - Milli(75 * Min(85 * d - 100 * n, 15 * d), 15 * d))
    ELSE IF PERIMETER_PERFECT_MAX * d < 100 * n /\ 100 * n <= PERIMETER_TIGHT_THRESHOLD * d
         THEN 100000 - Milli(25 * (100 * n - PERIMETER_PERFECT_MAX * d), 4 * d)
    ELSE IF 100 * n <= PERIMETER_MAX_RATIO * d
         THEN 75000 - Milli(50 * (100 * n - PERIMETER_TIGHT_THRESHOLD * d), 6 * d)
    ELSE Max(5000, 25000 - Milli(2 * Min(100 * n - PERIMETER_MAX_RATIO * d, 10 * d), d))

\* estimate_perimeter_score: the estimates of the raw lengths and widths, no
\* clearance; 75 when an estimate is falsy.  Raise when an estimator raises.
estimate_perimeter_score(user_length, user_width, shoe_length, shoe_width) ==
    LET user_perim == estimate_foot_perimeter_from_dimensions(user_length, user_width)
        shoe_perim == estimate_shoe_perimeter_from_dimensions(shoe_length, shoe_width)
    IN  IF IsRaise(user_perim) \/ IsRaise(shoe_perim) THEN Raise
        ELSE IF Truthy(user_perim) /\ Truthy(shoe_perim)
             THEN Some(estimate_perimeter_zones(RatioNum(user_perim[1], shoe_perim[1]),
                                                RatioDen(shoe_perim[1])))
        ELSE Some(75000)

\* The zone logic written out a second time in estimate_area_score.
estimate_area_zones(n, d) ==
    IF AREA_PERFECT_MIN * d <= 100 * n /\ 100 * n <= AREA_PERFECT_MAX * d
    THEN 100000
    ELSE IF 80 * d <= 100 * n /\ 100 * n < AREA_PERFECT_MIN * d
         THEN 100000 - Milli(10 * (AREA_PERFECT_MIN * d - 100 * n), 8 * d)
    ELSE IF 100 * n < 80 * d
         THEN Max(20000, 90000 - Milli(70 * Min(80 * d - 100 * n, 20 * d), 20 * d))
    ELSE IF AREA_PERFECT_MAX * d < 100 * n /\ 100 * n <= AREA_TIGHT_THRESHOLD * d
         THEN 100000 - Milli(20 * (100 * n - AREA_PERFECT_MAX * d), 6 * d)
    ELSE IF 100 * n <= AREA_MAX_RATIO * d
         THEN 80000 - Milli(50 * (100 * n - AREA_TIGHT_THRESHOLD * d), 7 * d)
    ELSE Max(10000, 30000 - Milli(2 * Min(100 * n - AREA_MAX_RATIO * d, 10 * d), d))

\* estimate_area_score: as estimate_perimeter_score, for the area.
estimate_area_score(user_length, user_width, shoe_length, shoe_width) ==
    LET user_area == estimate_foot_area_from_dimensions(user_length, user_width)
        shoe_area == estimate_shoe_area_from_dimensions(shoe_length, shoe_width)
    IN  IF Truthy(user_area) /\ Truthy(shoe_area)
        THEN Some(estimate_area_zones(RatioNum(user_area[1], shoe_area[1]),
                                      RatioDen(shoe_area[1])))
        ELSE Some(75000)

-----------------------------------------------------------------------------
(* The composite scorer and its reduced-input entry point.  The outcome of *)
(* a call is a record: raised (an exception left the call), values (the    *)
(* scores in tenths of a point the call can return) and the four           *)
(* sub-scores (-1 where the call returned before computing them).          *)

NoScores == [length |-> -1, width |-> -1, perimeter |-> -1, area |-> -1]

Returned(vs, sc) == [raised |-> FALSE, values |-> vs, scores |-> sc]

Raised == [raised |-> TRUE, values |-> {0}, scores |-> NoScores]

\* invalid_input with "val < 0" for "val <= 0": a zero dimension passes.
invalid_input_zero_passes(user_length, user_width, shoe_length, shoe_width) ==
    \E val \in {user_length, user_width, shoe_length, shoe_width} :
        IsNone(val) \/ val[1] < 0

\* any(val is None or val <= 0 for val in [user_length, user_width, shoe_length,
\* shoe_width])
invalid_input(user_length, user_width, shoe_length, shoe_width) ==
    \E val \in {user_length, user_width, shoe_length, shoe_width} :
        IsNone(val) \/ val[1] <= 0

\* The weights of an earlier revision (35 / 30 / 20 / 15 per cent).
weights_earlier == [length |-> 350, width |-> 300, perimeter |-> 200, area |-> 150]

\* weights, in thousandths
weights == [length |-> 375, width |-> 275, perimeter |-> 225, area |-> 125]

\* A composite that takes the weakest of the four sub-scores for their weighted
\* sum.
final_score_weakest_link(sc) ==
    {Min(1000, Max(0, RoundHalfEven(Min(Min(sc.length, sc.width),
                                        Min(sc.perimeter, sc.area)), 100)))}

\* min(100, max(0, round(final_score, 1))), in tenths of a point, of the
\* weighted sum of four sub-scores given in thousandths of a point.  The code
\* rounds a float: where the sum lies within the model's resolution (half a
\* thousandth of a point) of the midpoint of two tenths, the float's rounding
\* noise decides, and both neighbours are possible values.
final_score(sc) ==
    LET total == weights.length * sc.length + weights.width * sc.width
                 + weights.perimeter * sc.perimeter + weights.area * sc.area
        mag == Abs(total)
        sign == IF total < 0 THEN -1 ELSE 1
        q == mag \div 100000
        r == mag % 100000
        rounded == IF r < 49500 THEN {q} ELSE IF r > 50500 THEN {q + 1} ELSE {q, q + 1}
    IN  {Min(1000, Max(0, sign * v)) : v \in rounded}

\* adjusted_foot['perimeter']: user_perimeter + clearance if user_perimeter else None
adjusted_perimeter(user_perimeter, clearances) ==
    IF Truthy(user_perimeter) THEN Some(user_perimeter[1] + clearances.perimeter) ELSE None

\* adjusted_foot['area']: user_area * (1 + clearance) if user_area else None, in
\* units of 10^-4 square inch.
adjusted_area(user_area, clearances) ==
    IF Truthy(user_area) THEN Some(user_area[1] * (100 + clearances.area)) ELSE None

\* The perimeter branch: the zone logic on the adjusted perimeter when it and the
\* shoe's perimeter are truthy, otherwise estimate_perimeter_score.
perimeter_branch(user_length, user_width, user_perimeter, shoe_length, shoe_width, shoe_perimeter, clearances) ==
    LET adj == adjusted_perimeter(user_perimeter, clearances)
    IN  IF Truthy(adj) /\ Truthy(shoe_perimeter)
        THEN Some(perimeter_score(RatioNum(adj[1], shoe_perimeter[1]),
                                  RatioDen(shoe_perimeter[1])))
        ELSE estimate_perimeter_score(user_length, user_width, shoe_length, shoe_width)

\* The area branch, likewise.
area_branch(user_length, user_width, user_area, shoe_length, shoe_width, shoe_area, clearances) ==
    LET adj == adjusted_area(user_area, clearances)
    IN  IF Truthy(adj) /\ Truthy(shoe_area)
        THEN Some(area_score(RatioNum(adj[1], 100 * shoe_area[1]),
                             RatioDen(100 * shoe_area[1])))
        ELSE estimate_area_score(user_length, user_width, shoe_length, shoe_width)

\* enhanced_score_shoe_4d.  Past the validation Python raises TypeError on
\* arithmetic with None and ZeroDivisionError on a zero shoe_length or shoe_width.
enhanced_score_shoe_4d(user_length, user_width, user_area, user_perimeter, shoe_length, shoe_width, shoe_area, shoe_perimeter, t) ==
    IF invalid_input(user_length, user_width, shoe_length, shoe_width)
    THEN Returned({0}, NoScores)
    ELSE IF \/ \E val \in {user_length, user_width, shoe_length, shoe_width} : IsNone(val)
            \/ shoe_length[1] = 0
            \/ shoe_width[1] = 0
    THEN Raised
    ELSE
    LET clearances == get_clearances_by_shoe_type(t)
        adj_length == user_length[1] + clearances.length
        adj_width == user_width[1] + clearances.width
        p == perimeter_branch(user_length, user_width, user_perimeter, shoe_length,
                              shoe_width, shoe_perimeter, clearances)
        a == area_branch(user_length, user_width, user_area, shoe_length, shoe_width,
                         shoe_area, clearances)
    IN  IF IsRaise(p) \/ IsRaise(a) THEN Raised
        ELSE LET sc == [length |-> length_score(RatioNum(adj_length, shoe_length[1]),
                                                RatioDen(shoe_length[1])),
                        width |-> width_axis(adj_width, shoe_width[1]),
                        perimeter |-> p[1],
                        area |-> a[1]]
             IN  Returned(final_score(sc), sc)

\* A legacy entry point that leaves area and perimeter to the fallback of the 4D
\* scorer instead of passing its own estimates.
enhanced_score_shoe_no_estimates(user_length, user_width, shoe_length, shoe_width) ==
    IF invalid_input(user_length, user_width, shoe_length, shoe_width)
    THEN Returned({0}, NoScores)
    ELSE enhanced_score_shoe_4d(user_length, user_width, None, None,
                                shoe_length, shoe_width, None, None, "general")

\* enhanced_score_shoe: the same validation, then the 4D scorer on the four
\* estimates with the default shoe_type "general".
enhanced_score_shoe(user_length, user_width, shoe_length, shoe_width) ==
    IF invalid_input(user_length, user_width, shoe_length, shoe_width)
    THEN Returned({0}, NoScores)
    ELSE
    LET user_area == estimate_foot_area_from_dimensions(user_length, user_width)
        user_perimeter == estimate_foot_perimeter_from_dimensions(user_length, user_width)
        shoe_area == estimate_shoe_area_from_dimensions(shoe_length, shoe_width)
        shoe_perimeter == estimate_shoe_perimeter_from_dimensions(shoe_length, shoe_width)
    IN  IF IsRaise(user_perimeter) \/ IsRaise(shoe_perimeter) THEN Raised
        ELSE enhanced_score_shoe_4d(user_length, user_width, user_area, user_perimeter,
                                    shoe_length, shoe_width, shoe_area, shoe_perimeter,
                                    "general")

-----------------------------------------------------------------------------
(* The fit category the recommendations view derives from a score (in      *)
(* tenths of a point).                                                     *)

\* The same cascade with strict comparisons: a score on a threshold falls
\* into the band below.
get_fit_category_strict(score) ==
    IF score > 10 * FIT_EXCELLENT THEN "Excellent"
    ELSE IF score > 10 * FIT_GOOD THEN "Good"
    ELSE IF score > 10 * FIT_FAIR THEN "Fair"
    ELSE "Poor"

get_fit_category(score) ==
    IF score >= 10 * FIT_EXCELLENT THEN "Excellent"
    ELSE IF score >= 10 * FIT_GOOD THEN "Good"
    ELSE IF score >= 10 * FIT_FAIR THEN "Fair"
    ELSE "Poor"

-----------------------------------------------------------------------------
(* get_real_shoe_dimensions_4d.  A catalogue row holds the insole fields   *)
(* (optional, in hundredths, as Shoe.save stores them rounded to two       *)
(* decimals and never negative), us_size and width_category.  us_size is a *)
(* record: kind "decimal" with the size in tenths, "none" (None), "text"   *)
(* (a string float() rejects) or "missing" (no such attribute);            *)
(* has_attrs = FALSE is an object without the attributes of a Shoe.  The   *)
(* returned length and width are in 10^-4 inch, area and perimeter in      *)
(* hundredths.  The result is the set of outcomes the call can have.       *)

\* The static table without its half sizes.
US_MENS_SIZE_TO_LENGTH_whole_sizes(size_tenths) ==
    CASE size_tenths = 70 -> 96250
      [] size_tenths = 80 -> 99375
      [] size_tenths = 90 -> 102500
      [] size_tenths = 100 -> 105625
      [] size_tenths = 110 -> 109375
      [] size_tenths = 120 -> 112500
      [] size_tenths = 130 -> 116250
      [] OTHER -> 100000

\* US_MENS_SIZE_TO_LENGTH.get(float(shoe.us_size), 10.0)
US_MENS_SIZE_TO_LENGTH(size_tenths) ==
    CASE size_tenths = 70 -> 96250
      [] size_tenths = 75 -> 97500
      [] size_tenths = 80 -> 99375
      [] size_tenths = 85 -> 101250
      [] size_tenths = 90 -> 102500
      [] size_tenths = 95 -> 104375
      [] size_tenths = 100 -> 105625
      [] size_tenths = 105 -> 107500
      [] size_tenths = 110 -> 109375
      [] size_tenths = 115 -> 111250
      [] size_tenths = 120 -> 112500
      [] size_tenths = 125 -> 114375
      [] size_tenths = 130 -> 116250
      [] OTHER -> 100000

\* WIDTH_CATEGORY_TO_WIDTH.get(shoe.width_category, 3.6)
WIDTH_CATEGORY_TO_WIDTH(width_category) ==
    CASE width_category = "N" -> 34000
      [] width_category = "D" -> 36000
      [] width_category = "W" -> 38000
      [] OTHER -> 36000

NoDims == [length |-> 0, width |-> 0, area |-> 0, perimeter |-> 0]

Resolved(length, width, area, perimeter) ==
    [raised |-> FALSE,
     dims |-> [length |-> length, width |-> width, area |-> area,
               perimeter |-> perimeter]]

\* return 10.0, 3.6, 27.0, 28.0 of the except clause.
SafeDefault == Resolved(100000, 36000, 2700, 2800)

\* An exception that is neither ValueError nor AttributeError leaves the call.
ResolveRaised == [raised |-> TRUE, dims |-> NoDims]

get_real_shoe_dimensions_4d(row) ==
    IF ~row.has_attrs THEN {SafeDefault}
    ELSE IF Truthy(row.insole_length) /\ Truthy(row.insole_width)
    THEN LET length == 100 * row.insole_length[1]
             width == 100 * row.insole_width[1]
             areas == IF Truthy(row.insole_area) THEN {row.insole_area[1]}
                      ELSE estimate_shoe_area_e4(length, width)
             perimeter == IF Truthy(row.insole_perimeter) THEN row.insole_perimeter[1]
                          ELSE estimate_shoe_perimeter_e4(length, width)
         IN  {Resolved(length, width, area, perimeter) : area \in areas}
    ELSE CASE row.us_size.kind = "missing" -> {SafeDefault}
           [] row.us_size.kind = "text" -> {SafeDefault}
           [] row.us_size.kind = "none" -> {ResolveRaised}
           [] OTHER ->
                LET length == US_MENS_SIZE_TO_LENGTH(row.us_size.tenths)
                    width == WIDTH_CATEGORY_TO_WIDTH(row.width_category)
                IN  {Resolved(length, width, area,
                              estimate_shoe_perimeter_e4(length, width)) :
                        area \in estimate_shoe_area_e4(length, width)}

-----------------------------------------------------------------------------
(* Inputs.  Spec draws every argument from values of every kind (None,     *)
(* zero, negative, a foot of 0.08 in, an adult foot); SpecFit scores adult *)
(* feet against a catalogue of valid shoes drawn from grids whose sizes    *)
(* are the bounds below.                                                   *)

\* Sizes of the catalogue grids of SpecFit: a shoe's length, width, area and
\* perimeter take MaxLenSteps + 1, ... values each.
MaxLenSteps == 2
MaxWidSteps == 2
MaxAreaSteps == 1
MaxPerimSteps == 2

Measurement(ls, ws, as, ps) == [length : ls, width : ws, area : as, perimeter : ps]

NoShoe == [length |-> None, width |-> None, area |-> None, perimeter |-> None]

AnyFeet == Measurement({None, Some(0), Some(-100), Some(8), Some(1050)},
                       {None, Some(0), Some(-100), Some(8), Some(400)},
                       {None, Some(0), Some(-2900), Some(2900)},
                       {None, Some(0), Some(-20), Some(2700)})

AnyShoes == Measurement({None, Some(0), Some(-100), Some(1075)},
                        {None, Some(0), Some(-100), Some(400)},
                        {None, Some(-3000), Some(3000)},
                        {None, Some(-2700), Some(2700)})

\* "general" is the default argument, "" an empty shoe.function and "None" an
\* absent shoe type; none of them is a key of the clearance table.
AnyTypes == {"casual", "running", "hiking", "work", "general", "", "None"}

FitFeet == Measurement({Some(1000), Some(1050), Some(1100)},
                       {Some(360), Some(400)},
                       {None, Some(2300), Some(2900)},
                       {None, Some(2300), Some(2500), Some(2700)})

FitShoes == Measurement({Some(950 + 50 * k) : k \in 0 .. MaxLenSteps},
                        {Some(360 + 40 * k) : k \in 0 .. MaxWidSteps},
                        {None} \cup {Some(2900 + 400 * k) : k \in 0 .. MaxAreaSteps},
                        {None} \cup {Some(2250 + 450 * k) : k \in 0 .. MaxPerimSteps})

FitTypes == {"casual", "running", "hiking", "work"}

\* The rows of SpecCatalog: insole fields absent, zero, those of an insole of
\* 0.08 in and those of adult insoles; every size from 6.5 to 13.5 in half
\* steps, 10.3, and the three kinds of us_size that are not numbers.
UsSizes ==
    {[kind |-> "decimal", tenths |-> 65 + 5 * k] : k \in 0 .. 14}
    \cup {[kind |-> "decimal", tenths |-> 103]}
    \cup {[kind |-> k, tenths |-> 0] : k \in {"none", "text", "missing"}}

CatalogRows ==
    [has_attrs : BOOLEAN,
     insole_length : {None, Some(0), Some(8), Some(1050), Some(1100)},
     insole_width : {None, Some(0), Some(8), Some(400)},
     insole_area : {None, Some(0), Some(2900)},
     insole_perimeter : {None, Some(0), Some(2700)},
     us_size : UsSizes,
     width_category : {"N", "D", "W", "X", ""}]

NoRow ==
    [has_attrs |-> FALSE, insole_length |-> None, insole_width |-> None,
     insole_area |-> None, insole_perimeter |-> None,
     us_size |-> [kind |-> "missing", tenths |-> 0], width_category |-> ""]

CatalogFeet == Measurement({Some(1050)}, {Some(400)}, {None}, {None})

\* SpecThreads: two threads score concurrently; each call takes a foot (with a
\* zero or a valid length, with or without a measured area), one of four shoes
\* and one of two shoe types.  Foot 10.0 x 3.6 in of area 23.0 against shoe
\* 10.0 x 4.0 in of area 29.0 as a hiking shoe sums to 75.55, between two
\* tenths.
Threads == {1, 2}

ThreadFeet == Measurement({Some(0), Some(1000)}, {Some(360)},
                          {None, Some(2300)}, {Some(2550)})

ThreadShoes == Measurement({Some(1000), Some(1050)}, {Some(400)},
                           {Some(2900)}, {None, Some(2700)})

ThreadTypes == {"casual", "hiking"}

\* SpecAdult: feet over the adult range, length 8 to 13 in and width 3 to 5 in,
\* with area and perimeter absent, far too small or far too large; for each
\* foot a shoe of the foot's length and width, one of its length and 10% narrower,
\* and one far too small (80% of the length, 70% of the width).
AdultFeet == Measurement({Some(800 + 50 * k) : k \in 0 .. 10},
                         {Some(300 + 40 * k) : k \in 0 .. 5},
                         {None, Some(500), Some(9000)},
                         {None, Some(500), Some(9000)})

AdultShoes ==
    LET l == user.length[1]
        w == user.width[1]
    IN  {[length |-> Some(p[1]), width |-> Some(p[2]), area |-> a, perimeter |-> q] :
            p \in {<<l, w>>, <<l, (9 * w) \div 10>>, <<(8 * l) \div 10, (7 * w) \div 10>>},
            a \in {None, Some(500), Some(9000)},
            q \in {None, Some(500), Some(9000)}}

AdultTypes == {"casual", "hiking"}

-----------------------------------------------------------------------------
(* The state machine: a foot measurement is scored against one shoe after  *)
(* another, as the catalogue loops of the views do.  call names the entry  *)
(* point whose outcome the state holds ("none" between two calls).         *)

-----------------------------------------------------------------------------
(* The API: guest sessions, foot images, the upload handler with the       *)
(* cleanup it may trigger, and the requests that read a measurement.  Time *)
(* is counted in hours.                                                    *)

\* timedelta(hours=1) of GuestSession.is_expired and cleanup_expired.
SESSION_EXPIRY_HOURS == 1

\* timedelta(days=7) of cleanup_old_guest_sessions.
LEGACY_EXPIRY_HOURS == 168

\* The number of uploads a behaviour makes.
MaxImages == 2

\* The instants at which something happens, in hours: a session created at 1
\* is one hour old at 2, which is not expired, and expired at 170; a legacy image
\* uploaded at 0 is older than 7 days at 170.
Clock == <<1, 2, 170>>

SessionIds == {"s1", "s2"}

Users == {"u1", "u2"}

\* Django session keys: strings of one length.
SessionKeys == {<<"k", "1">>, <<"k", "2">>}

GUEST_SESSION_TAG == <<"GUEST_SESSION:">>

\* str.startswith
StartsWith(text, prefix) ==
    Len(prefix) <= Len(text) /\ SubSeq(text, 1, Len(prefix)) = prefix

\* Image 1 is an image of the legacy session format, stored before the
\* first upload; the images of UploadIds are created by uploads, ids ascending.
\* 0 stands for no image.
ImageIds == 1 .. MaxImages + 1

UploadIds == 2 .. MaxImages + 1

\* guest_sessions[sid] is the hour the session sid was created, NoSession
\* while no session of that id has existed, DeletedSession once it is deleted:
\* uuid4 never makes the id of an earlier session again.
NoSession == -1

DeletedSession == -2

Missing == {NoSession, DeletedSession}

NoImage ==
    [user |-> "", guest_session |-> "", status |-> "absent", measurement |-> NoShoe,
     error_message |-> <<>>, uploaded_at |-> 0]

DeletedImage == [NoImage EXCEPT !.status = "deleted"]

\* The measurements image processing stores: all four, or (for an image
\* processed before area and perimeter were measured) length and width only.
FullFoot == [length |-> Some(1050), width |-> Some(400), area |-> Some(2900),
             perimeter |-> Some(2700)]

LegacyFoot == [length |-> Some(1050), width |-> Some(400), area |-> None,
               perimeter |-> None]

LegacyImage(key, uploaded_at) ==
    [user |-> "", guest_session |-> "", status |-> "complete", measurement |-> LegacyFoot,
     error_message |-> GUEST_SESSION_TAG \o key, uploaded_at |-> uploaded_at]

\* The catalogue: Shoe rows with measured insoles, one of them inactive.
ShoeIds == 1 .. 4

Catalog(id) ==
    CASE id = 1 -> [is_active |-> TRUE, function |-> "casual",
                    row |-> [NoRow EXCEPT !.has_attrs = TRUE, !.insole_length = Some(1100),
                                          !.insole_width = Some(400),
                                          !.insole_area = Some(3300),
                                          !.insole_perimeter = Some(3000)]]
      [] id = 2 -> [is_active |-> FALSE, function |-> "casual",
                    row |-> [NoRow EXCEPT !.has_attrs = TRUE, !.insole_length = Some(1075),
                                          !.insole_width = Some(404),
                                          !.insole_area = Some(3200),
                                          !.insole_perimeter = Some(2900)]]
      [] id = 3 -> [is_active |-> TRUE, function |-> "running",
                    row |-> [NoRow EXCEPT !.has_attrs = TRUE, !.insole_length = Some(1100),
                                          !.insole_width = Some(408),
                                          !.insole_area = Some(3400),
                                          !.insole_perimeter = Some(3000)]]
      [] id = 4 -> [is_active |-> TRUE, function |-> "hiking",
                    row |-> [NoRow EXCEPT !.has_attrs = TRUE, !.insole_length = Some(900),
                                          !.insole_width = Some(350),
                                          !.insole_area = None,
                                          !.insole_perimeter = None]]

NoRequest == [user |-> "", header |-> "", session_key |-> <<>>]

NoResponse ==
    [endpoint |-> "", request |-> NoRequest, pk |-> 0, status |-> 0, image |-> 0,
     guest_session_id |-> "", recommendations |-> <<>>, total_analyzed |-> 0,
     total_cleaned |-> 0]

\* completed_uploads[sid]: the upload of the guest session sid that completed
\* last, the creation time of the session it was stored under, and whether the
\* session id has made another upload request since.
NoUpload == [image |-> 0, session_created_at |-> 0, followed |-> FALSE]

\* The FootImage instance an upload in progress holds in memory.
NoPending == [stage |-> "", user |-> "", guest_session |-> "", uploaded_at |-> 0]

\* No request has been made and nothing is stored.
WebIdle ==
    /\ now = Clock[1]
    /\ guest_sessions = [sid \in SessionIds |-> NoSession]
    /\ foot_images = [id \in ImageIds |-> NoImage]
    /\ pending = [id \in ImageIds |-> NoPending]
    /\ response = NoResponse
    /\ completed_uploads = [sid \in SessionIds |-> NoUpload]

Stored(images, id) == images[id].status \in {"processing", "complete", "error"}

\* GuestSession.is_expired
is_expired(created_at) == now - created_at > SESSION_EXPIRY_HOURS

\* on_delete=models.CASCADE of FootImage.guest_session.
CascadeDelete(images, sids) ==
    [id \in ImageIds |->
        IF Stored(images, id) /\ images[id].guest_session \in sids
        THEN DeletedImage ELSE images[id]]

\* The cutoff left out: every session.
every_session(sessions) == {sid \in SessionIds : sessions[sid] \notin Missing}

\* GuestSession.cleanup_expired: the sessions created before now - 1 hour.
expired_sessions(sessions) ==
    {sid \in SessionIds :
        sessions[sid] \notin Missing /\ sessions[sid] < now - SESSION_EXPIRY_HOURS}

\* old_guest_images of cleanup_old_guest_sessions.
old_guest_images(images) ==
    {id \in ImageIds :
        /\ Stored(images, id)
        /\ images[id].user = ""
        /\ images[id].guest_session = ""
        /\ StartsWith(images[id].error_message, GUEST_SESSION_TAG)
        /\ images[id].uploaded_at < now - LEGACY_EXPIRY_HOURS}

\* cleanup_old_guest_sessions: the rows it leaves and the count it returns.
cleanup_old_guest_sessions(sessions, images) ==
    LET expired == expired_sessions(sessions)
        after_sessions == CascadeDelete(images, expired)
        old == old_guest_images(after_sessions)
    IN  [sessions |-> [sid \in SessionIds |->
                          IF sid \in expired THEN DeletedSession ELSE sessions[sid]],
         images |-> [id \in ImageIds |->
                        IF id \in old THEN DeletedImage ELSE after_sessions[id]],
         total_cleaned |-> Cardinality(expired) + Cardinality(old)]

\* The id the next upload's FootImage gets.
NextImageId ==
    IF \E id \in UploadIds : foot_images[id].status = "absent"
    THEN SetMin({id \in UploadIds : foot_images[id].status = "absent"})
    ELSE 0

\* get_or_create_guest_session: the outcomes (session id, sessions and images
\* afterwards) for the X-Guest-Session-ID header of the request.  A header
\* that is no UUID and an absent header make a session with a fresh uuid4.
get_or_create_guest_session(header) ==
    IF header \in SessionIds
    THEN IF guest_sessions[header] \in Missing
         THEN {[id |-> header,
                sessions |-> [guest_sessions EXCEPT ![header] = now],
                images |-> foot_images]}
         ELSE IF is_expired(guest_sessions[header])
         THEN {[id |-> header,
                sessions |-> [guest_sessions EXCEPT ![header] = now],
                images |-> CascadeDelete(foot_images, {header})]}
         ELSE {[id |-> header, sessions |-> guest_sessions, images |-> foot_images]}
    ELSE {[id |-> sid,
           sessions |-> [guest_sessions EXCEPT ![sid] = now],
           images |-> foot_images] :
             sid \in {x \in SessionIds : guest_sessions[x] = NoSession}}

\* The filter status='complete' left out: the image uploaded last among the
\* stored images ids.
LatestUploaded(ids) ==
    LET stored == {id \in ids : Stored(foot_images, id)}
    IN  IF stored = {} THEN 0
        ELSE CHOOSE id \in stored :
                 \A other \in stored :
                     \/ foot_images[other].uploaded_at < foot_images[id].uploaded_at
                     \/ /\ foot_images[other].uploaded_at = foot_images[id].uploaded_at
                        /\ other <= id

\* The complete image uploaded last among the images ids (0 when there is none):
\* order_by('-uploaded_at').first(); ids ascend with the upload time.
LatestComplete(ids) ==
    LET complete == {id \in ids : foot_images[id].status = "complete"}
    IN  IF complete = {} THEN 0
        ELSE CHOOSE id \in complete :
                 \A other \in complete :
                     \/ foot_images[other].uploaded_at < foot_images[id].uploaded_at
                     \/ /\ foot_images[other].uploaded_at = foot_images[id].uploaded_at
                        /\ other <= id

\* get_guest_foot_image: the id of the image it returns, 0 for None.
get_guest_foot_image(request) ==
    LET by_session ==
            IF request.header \in SessionIds /\ guest_sessions[request.header] \notin Missing
            THEN LatestComplete({id \in ImageIds :
                                    foot_images[id].guest_session = request.header})
            ELSE 0
        by_key ==
            IF request.session_key # <<>>
            THEN LatestComplete({id \in ImageIds :
                     /\ foot_images[id].user = ""
                     /\ foot_images[id].guest_session = ""
                     /\ StartsWith(foot_images[id].error_message,
                                   GUEST_SESSION_TAG \o request.session_key)})
            ELSE 0
    IN  IF by_session # 0 THEN by_session ELSE by_key

\* The foot image the latest-measurement and recommendations views work on.
requester_foot_image(request) ==
    IF request.user # ""
    THEN LatestComplete({id \in ImageIds : foot_images[id].user = request.user})
    ELSE get_guest_foot_image(request)

\* The feet the stored images carry.
StoredFeet == {FullFoot, LegacyFoot}

\* The score the recommendations view computes for a shoe of the catalogue and
\* a foot, before round(final_score, 1) settles a tie between two tenths: the
\* dimensions of get_real_shoe_dimensions_4d (lengths from 10^-4 inch to
\* hundredths), the 4D scorer when the foot has a positive area and perimeter,
\* the legacy scorer otherwise.
fit_score_candidates ==
    [foot \in StoredFeet, id \in ShoeIds |->
        UNION {IF Positive(foot.area) /\ Positive(foot.perimeter)
               THEN enhanced_score_shoe_4d(foot.length, foot.width, foot.area,
                                           foot.perimeter,
                                           Some(resolved.dims.length \div 100),
                                           Some(resolved.dims.width \div 100),
                                           Some(resolved.dims.area),
                                           Some(resolved.dims.perimeter),
                                           Catalog(id).function).values
               ELSE enhanced_score_shoe(foot.length, foot.width,
                                        Some(resolved.dims.length \div 100),
                                        Some(resolved.dims.width \div 100)).values :
               resolved \in get_real_shoe_dimensions_4d(Catalog(id).row)}]

recommendation_score(foot, id) == float_round(fit_score_candidates[foot, id])

\* scored_shoes of the recommendations view before the sort: an entry for each
\* shoe of ids in the order of the queryset.
RECURSIVE scored_shoes_append(_, _)
scored_shoes_append(foot, ids) ==
    IF ids = {} THEN <<>>
    ELSE scored_shoes_append(foot, ids \ {SetMax(ids)})
             \o <<[shoe |-> SetMax(ids),
                   fit_score |-> recommendation_score(foot, SetMax(ids))]>>

\* The sort left out: the entries in the order of the queryset.
sort_left_out(entries) == entries

\* scored_shoes.sort(key=lambda x: x['fit_score'], reverse=True): the sort is
\* stable, so an entry stands behind the entries of a higher score and behind
\* the entries of its score that stood before it.
sort_by_fit_score(entries) ==
    LET rank(i) == 1 + Cardinality({j \in 1 .. Len(entries) :
                           \/ entries[j].fit_score > entries[i].fit_score
                           \/ /\ entries[j].fit_score = entries[i].fit_score
                              /\ j < i})
    IN  [k \in 1 .. Len(entries) |->
            entries[CHOOSE i \in 1 .. Len(entries) : rank(i) = k]]

\* scored_shoes of the recommendations view over the shoes ids, sorted.
scored_shoes(foot, ids) ==
    CHOOSE sorted \in {sort_by_fit_score(entries) :
                          entries \in {scored_shoes_append(foot, ids)}} : TRUE

-----------------------------------------------------------------------------
(* PriceSelector.record_attempt on one selector row, called by several     *)
(* workers.                                                                *)

Workers == {1, 2}

\* The number of calls a worker makes.
MaxCalls == 2

\* last_success is None or the time of a call, told apart by worker and call.
IdleWorker ==
    [pc |-> "idle", success |-> FALSE,
     row |-> [total_attempts |-> 0, success_count |-> 0, last_success |-> <<>>],
     calls |-> 0, successes |-> 0]

SelectorIdle ==
    /\ selector = [total_attempts |-> 0, success_count |-> 0, last_success |-> <<>>]
    /\ workers = [w \in Workers |-> IdleWorker]

\* The locals of a thread that is not inside the scorer.
IdleThread ==
    [pc |-> "idle", user |-> NoShoe, shoe |-> NoShoe, shoe_type |-> "general",
     clearances |-> get_clearances_by_shoe_type("general"), scores |-> NoScores,
     result |-> 0, raised |-> FALSE]

InitWith(Feet) ==
    /\ user \in Feet
    /\ shoe = NoShoe
    /\ shoe_type = "general"
    /\ call = "none"
    /\ scores = NoScores
    /\ result = 0
    /\ raised = FALSE
    /\ shoe_row = NoRow
    /\ dims = NoDims
    /\ fit_category = ""
    /\ threads = [t \in Threads |-> IdleThread]
    /\ round_up = FALSE
    /\ WebIdle
    /\ SelectorIdle

\* One call of enhanced_score_shoe_4d on the measured foot and a shoe.
Score4D(Shoes, Types) ==
    /\ call = "none"
    /\ \E s \in Shoes, t \in Types :
        LET out == enhanced_score_shoe_4d(user.length, user.width, user.area,
                                          user.perimeter, s.length, s.width, s.area,
                                          s.perimeter, t)
        IN  /\ shoe' = s
            /\ shoe_type' = t
            /\ call' = "enhanced_score_shoe_4d"
            /\ scores' = out.scores
            /\ result' \in out.values
            /\ raised' = out.raised
            /\ UNCHANGED <<user, shoe_row, dims, fit_category, threads, round_up,
                           web_vars, selector_vars>>

\* One call of enhanced_score_shoe on the foot's and a shoe's length and width.
ScoreLegacy(Shoes) ==
    /\ call = "none"
    /\ \E s \in Shoes :
        LET out == enhanced_score_shoe(user.length, user.width, s.length, s.width)
        IN  /\ shoe' = [s EXCEPT !.area = None, !.perimeter = None]
            /\ shoe_type' = "general"
            /\ call' = "enhanced_score_shoe"
            /\ scores' = out.scores
            /\ result' \in out.values
            /\ raised' = out.raised
            /\ UNCHANGED <<user, shoe_row, dims, fit_category, threads, round_up,
                           web_vars, selector_vars>>

\* The caller has used the score and goes on to the next shoe.
NextShoe ==
    /\ call # "none"
    /\ shoe' = NoShoe
    /\ shoe_type' = "general"
    /\ call' = "none"
    /\ scores' = NoScores
    /\ result' = 0
    /\ raised' = FALSE
    /\ shoe_row' = NoRow
    /\ dims' = NoDims
    /\ fit_category' = ""
    /\ UNCHANGED <<user, threads, round_up, web_vars, selector_vars>>

\* The recommendations view derives the fit category of a returned score.
Categorise ==
    /\ call \in {"enhanced_score_shoe_4d", "enhanced_score_shoe"}
    /\ ~raised
    /\ fit_category = ""
    /\ fit_category' = get_fit_category(result)
    /\ UNCHANGED <<user, shoe, shoe_type, call, scores, result, raised, shoe_row, dims,
                   threads, round_up, web_vars, selector_vars>>

\* One call of get_real_shoe_dimensions_4d on a row of the catalogue.
ResolveShoe(Rows) ==
    /\ call = "none"
    /\ \E row \in Rows :
        \E out \in get_real_shoe_dimensions_4d(row) :
            /\ shoe_row' = row
            /\ dims' = out.dims
            /\ raised' = out.raised
            /\ call' = "get_real_shoe_dimensions_4d"
            /\ UNCHANGED <<user, shoe, shoe_type, scores, result, fit_category,
                           threads, round_up, web_vars, selector_vars>>

Init == InitWith(AnyFeet)

Next ==
    Score4D(AnyShoes, AnyTypes) \/ ScoreLegacy(AnyShoes) \/ Categorise \/ NextShoe

Spec == Init /\ [][Next]_vars

InitFit == InitWith(FitFeet)

NextFit ==
    Score4D(FitShoes, FitTypes) \/ ScoreLegacy(FitShoes) \/ Categorise \/ NextShoe

SpecFit == InitFit /\ [][NextFit]_vars

InitAdult == InitWith(AdultFeet)

NextAdult ==
    Score4D(AdultShoes, AdultTypes) \/ ScoreLegacy(AdultShoes) \/ Categorise \/ NextShoe

SpecAdult == InitAdult /\ [][NextAdult]_vars

-----------------------------------------------------------------------------
(* enhanced_score_shoe_4d run by several threads, one statement group per  *)
(* step.  Every name the function assigns is a local of the call: the      *)
(* arguments, clearances, adjusted_foot (recomputed from clearances where  *)
(* it is used), scores and the return value.  The module-level thresholds  *)
(* it reads are assigned once, at import.  The warning the validation logs *)
(* is output no call reads.                                                *)

\* The scores dict a thread's call reads when it sums up: a dict of thread 1,
\* for a dict of the call.
scores_of_first_thread(t) == threads[1].scores

\* The scores dict of the call thread t is in.
local_scores(t) == threads[t].scores

\* A thread enters the scorer with its arguments.
ThreadCall(t) ==
    /\ threads[t].pc = "idle"
    /\ \E u \in ThreadFeet, s \in ThreadShoes, st \in ThreadTypes :
        threads' = [threads EXCEPT ![t] = [IdleThread EXCEPT !.pc = "validate",
                                              !.user = u, !.shoe = s, !.shoe_type = st]]
    /\ UNCHANGED <<user, shoe, shoe_type, call, scores, result, raised, shoe_row, dims,
                   fit_category, round_up, web_vars, selector_vars>>

\* if not all(...): return 0
ThreadValidate(t) ==
    LET th == threads[t]
    IN  /\ th.pc = "validate"
        /\ threads' = [threads EXCEPT ![t] =
               IF invalid_input(th.user.length, th.user.width, th.shoe.length, th.shoe.width)
               THEN [th EXCEPT !.pc = "done", !.result = 0]
               ELSE [th EXCEPT !.pc = "clearances"]]
        /\ UNCHANGED <<user, shoe, shoe_type, call, scores, result, raised, shoe_row,
                       dims, fit_category, round_up, web_vars, selector_vars>>

\* clearances = get_clearances_by_shoe_type(shoe_type); adjusted_foot = {...}
ThreadClearances(t) ==
    LET th == threads[t]
    IN  /\ th.pc = "clearances"
        /\ threads' = [threads EXCEPT ![t] =
               [th EXCEPT !.pc = "length",
                          !.clearances = get_clearances_by_shoe_type(th.shoe_type)]]
        /\ UNCHANGED <<user, shoe, shoe_type, call, scores, result, raised, shoe_row,
                       dims, fit_category, round_up, web_vars, selector_vars>>

\* scores['length'] = ...
ThreadLength(t) ==
    LET th == threads[t]
        adj_length == th.user.length[1] + th.clearances.length
    IN  /\ th.pc = "length"
        /\ threads' = [threads EXCEPT ![t] =
               [th EXCEPT !.pc = "width",
                          !.scores.length = length_score(RatioNum(adj_length, th.shoe.length[1]),
                                                         RatioDen(th.shoe.length[1]))]]
        /\ UNCHANGED <<user, shoe, shoe_type, call, scores, result, raised, shoe_row,
                       dims, fit_category, round_up, web_vars, selector_vars>>

\* scores['width'] = ...
ThreadWidth(t) ==
    LET th == threads[t]
        adj_width == th.user.width[1] + th.clearances.width
    IN  /\ th.pc = "width"
        /\ threads' = [threads EXCEPT ![t] =
               [th EXCEPT !.pc = "perimeter",
                          !.scores.width = width_axis(adj_width, th.shoe.width[1])]]
        /\ UNCHANGED <<user, shoe, shoe_type, call, scores, result, raised, shoe_row,
                       dims, fit_category, round_up, web_vars, selector_vars>>

\* scores['perimeter'] = ..., by the zones or by estimate_perimeter_score
ThreadPerimeter(t) ==
    LET th == threads[t]
        p == perimeter_branch(th.user.length, th.user.width, th.user.perimeter,
                              th.shoe.length, th.shoe.width, th.shoe.perimeter,
                              th.clearances)
    IN  /\ th.pc = "perimeter"
        /\ threads' = [threads EXCEPT ![t] =
               IF IsRaise(p) THEN [th EXCEPT !.pc = "done", !.raised = TRUE]
               ELSE [th EXCEPT !.pc = "area", !.scores.perimeter = p[1]]]
        /\ UNCHANGED <<user, shoe, shoe_type, call, scores, result, raised, shoe_row,
                       dims, fit_category, round_up, web_vars, selector_vars>>

\* scores['area'] = ..., by the zones or by estimate_area_score
ThreadArea(t) ==
    LET th == threads[t]
        a == area_branch(th.user.length, th.user.width, th.user.area,
                         th.shoe.length, th.shoe.width, th.shoe.area, th.clearances)
    IN  /\ th.pc = "area"
        /\ threads' = [threads EXCEPT ![t] =
               IF IsRaise(a) THEN [th EXCEPT !.pc = "done", !.raised = TRUE]
               ELSE [th EXCEPT !.pc = "final", !.scores.area = a[1]]]
        /\ UNCHANGED <<user, shoe, shoe_type, call, scores, result, raised, shoe_row,
                       dims, fit_category, round_up, web_vars, selector_vars>>

\* final_score = sum(...); return min(100, max(0, round(final_score, 1)))
ThreadFinal(t) ==
    LET th == threads[t]
    IN  /\ th.pc = "final"
        /\ threads' = [threads EXCEPT ![t] =
               [th EXCEPT !.pc = "done",
                          !.result = float_round(final_score(local_scores(t)))]]
        /\ UNCHANGED <<user, shoe, shoe_type, call, scores, result, raised, shoe_row,
                       dims, fit_category, round_up, web_vars, selector_vars>>

\* The caller has taken the return value; the locals of the call are gone.
ThreadReturn(t) ==
    /\ threads[t].pc = "done"
    /\ threads' = [threads EXCEPT ![t] = IdleThread]
    /\ UNCHANGED <<user, shoe, shoe_type, call, scores, result, raised, shoe_row, dims,
                   fit_category, round_up, web_vars, selector_vars>>

InitThreads ==
    /\ user \in CatalogFeet
    /\ shoe = NoShoe
    /\ shoe_type = "general"
    /\ call = "none"
    /\ scores = NoScores
    /\ result = 0
    /\ raised = FALSE
    /\ shoe_row = NoRow
    /\ dims = NoDims
    /\ fit_category = ""
    /\ threads = [t \in Threads |-> IdleThread]
    /\ round_up \in BOOLEAN
    /\ WebIdle
    /\ SelectorIdle

NextThreads ==
    \E t \in Threads :
        \/ ThreadCall(t)
        \/ ThreadValidate(t)
        \/ ThreadClearances(t)
        \/ ThreadLength(t)
        \/ ThreadWidth(t)
        \/ ThreadPerimeter(t)
        \/ ThreadArea(t)
        \/ ThreadFinal(t)
        \/ ThreadReturn(t)

SpecThreads == InitThreads /\ [][NextThreads]_vars

-----------------------------------------------------------------------------
(* The handlers of the API.  An upload is three steps: the handler up to   *)
(* the saved FootImage, the cleanup that one upload in ten runs, and the   *)
(* image processing with the response.  Every other handler is one step.   *)

Headers == SessionIds \cup {"", "not-a-uuid"}

\* Requests: a user authenticated by token, or a guest with any header and any
\* Django session key.
Requests ==
    {[user |-> u, header |-> "", session_key |-> <<>>] : u \in Users}
    \cup [user : {""}, header : SessionIds, session_key : {<<>>}]
    \cup [user : {""}, header : {""}, session_key : SessionKeys]
    \cup [user : {""}, header : {"s1"}, session_key : {<<"k", "1">>}]

UploadRequests ==
    {[user |-> "u1", header |-> "", session_key |-> <<>>]}
    \cup [user : {""}, header : Headers, session_key : {<<>>}]

\* process_foot_image_enhanced may also return neither a measurement nor a
\* message.
ProcessingOutcomesUnchecked ==
    {[measurement |-> FullFoot, error_msg |-> <<>>],
     [measurement |-> NoShoe, error_msg |-> <<>>],
     [measurement |-> NoShoe, error_msg |-> <<"Foot not detected in the image">>]}

\* What process_foot_image_enhanced returns: four measurements and no error
\* message, or no measurement and a message.
ProcessingOutcomes ==
    {[measurement |-> FullFoot, error_msg |-> <<>>],
     [measurement |-> NoShoe, error_msg |-> <<"Foot not detected in the image">>]}

Tick ==
    /\ \E i \in 1 .. Len(Clock) - 1 : now = Clock[i] /\ now' = Clock[i + 1]
    /\ response' = NoResponse
    /\ UNCHANGED <<guest_sessions, foot_images, pending, completed_uploads>>
    /\ UNCHANGED <<scorer_vars, selector_vars>>

\* FootImageUploadView.post up to serializer.save: the guest session of a guest,
\* then the FootImage in status 'processing' (400 when the serializer rejects
\* the request).
UploadSave(request, valid) ==
    /\ NextImageId # 0
    /\ \E session \in (IF request.user = ""
                       THEN get_or_create_guest_session(request.header)
                       ELSE {[id |-> "", sessions |-> guest_sessions,
                              images |-> foot_images]}) :
        /\ guest_sessions' = session.sessions
        /\ IF valid
           THEN /\ foot_images' =
                       [session.images EXCEPT ![NextImageId] =
                           [user |-> request.user, guest_session |-> session.id,
                            status |-> "processing", measurement |-> NoShoe,
                            error_message |-> <<>>, uploaded_at |-> now]]
                /\ pending' = [pending EXCEPT ![NextImageId] =
                                  [stage |-> "saved", user |-> request.user,
                                   guest_session |-> session.id, uploaded_at |-> now]]
                /\ response' = NoResponse
           ELSE /\ foot_images' = session.images
                /\ pending' = pending
                /\ response' = [NoResponse EXCEPT !.endpoint = "upload",
                                                  !.request = request, !.status = 400]
        /\ completed_uploads' =
               IF request.user = ""
               THEN [completed_uploads EXCEPT ![session.id].followed =
                                                  completed_uploads[session.id].image # 0]
               ELSE completed_uploads
    /\ UNCHANGED now
    /\ UNCHANGED <<scorer_vars, selector_vars>>

\* if random.random() < 0.1: cleanup_old_guest_sessions()
UploadCleanup(id) ==
    /\ pending[id].stage = "saved"
    /\ LET cleaned == cleanup_old_guest_sessions(guest_sessions, foot_images)
       IN  /\ guest_sessions' = cleaned.sessions
           /\ foot_images' = cleaned.images
           /\ response' = [NoResponse EXCEPT !.endpoint = "cleanup_old_guest_sessions",
                                             !.total_cleaned = cleaned.total_cleaned]
    /\ pending' = [pending EXCEPT ![id].stage = "cleaned"]
    /\ UNCHANGED <<now, completed_uploads>>
    /\ UNCHANGED <<scorer_vars, selector_vars>>

\* The rest of FootImageUploadView.post: the image is processed, the instance
\* saved as 'complete' or 'error', and the response is 201.  instance.save() of
\* a row that is gone inserts it again, which the foreign key forbids unless a
\* session of its id exists; the exception leaves the handler as a 500.
UploadFinish(id) ==
    /\ pending[id].stage # ""
    /\ pending' = [pending EXCEPT ![id] = NoPending]
    /\ LET instance == pending[id]
           insertable == instance.guest_session = ""
                         \/ guest_sessions[instance.guest_session] \notin Missing
       IN  IF ~Stored(foot_images, id) /\ ~insertable
           THEN /\ response' = [NoResponse EXCEPT !.endpoint = "upload", !.status = 500]
                /\ UNCHANGED <<foot_images, completed_uploads>>
           ELSE \E outcome \in ProcessingOutcomes :
                /\ foot_images' = [foot_images EXCEPT ![id] =
                       [user |-> instance.user, guest_session |-> instance.guest_session,
                        status |-> IF outcome.error_msg = <<>> THEN "complete" ELSE "error",
                        measurement |-> outcome.measurement,
                        error_message |-> outcome.error_msg,
                        uploaded_at |-> instance.uploaded_at]]
                /\ response' = [NoResponse EXCEPT !.endpoint = "upload", !.status = 201,
                                    !.image = id,
                                    !.guest_session_id = instance.guest_session]
                /\ completed_uploads' =
                       IF outcome.error_msg = <<>> /\ instance.guest_session # ""
                       THEN [completed_uploads EXCEPT ![instance.guest_session] =
                                [image |-> id,
                                 session_created_at |->
                                     guest_sessions[instance.guest_session],
                                 followed |-> FALSE]]
                       ELSE completed_uploads
    /\ UNCHANGED <<now, guest_sessions>>
    /\ UNCHANGED <<scorer_vars, selector_vars>>

\* The handlers that only read.  They change nothing but the response, so one
\* of them taken after another reaches no state that it does not reach from
\* the state before the other: they are taken from the states whose response
\* is not theirs.
ReadEndpoints == {"get_latest_measurement", "recommendations", "foot_image_detail"}

\* get_latest_measurement
LatestMeasurement(request) ==
    /\ response.endpoint \notin ReadEndpoints
    /\ LET latest == requester_foot_image(request)
       IN  response' = [NoResponse EXCEPT !.endpoint = "get_latest_measurement",
                            !.request = request,
                            !.status = IF latest = 0 THEN 404 ELSE 200,
                            !.image = latest]
    /\ UNCHANGED <<now, guest_sessions, foot_images, pending, completed_uploads>>
    /\ UNCHANGED <<scorer_vars, selector_vars>>

\* recommendations
Recommendations(request) ==
    /\ response.endpoint \notin ReadEndpoints
    /\ LET foot_image == requester_foot_image(request)
           active == {id \in ShoeIds : Catalog(id).is_active}
       IN  IF \/ foot_image = 0
              \/ foot_images[foot_image].measurement.length = None
              \/ foot_images[foot_image].measurement.width = None
           THEN response' = [NoResponse EXCEPT !.endpoint = "recommendations",
                                 !.request = request, !.status = 400]
           ELSE \E recommended \in {scored_shoes(foot_images[foot_image].measurement,
                                                active)} :
                    response' = [NoResponse EXCEPT !.endpoint = "recommendations",
                                     !.request = request, !.status = 200,
                                     !.image = foot_image,
                                     !.recommendations = recommended,
                                     !.total_analyzed = Len(recommended)]
    /\ UNCHANGED <<now, guest_sessions, foot_images, pending, completed_uploads>>
    /\ UNCHANGED <<scorer_vars, selector_vars>>

\* The authorization of FootImageDetailView.get with the check of the owner
\* left out.
has_access_always(request, foot_image) == TRUE

\* The authorization of FootImageDetailView.get.
has_access(request, foot_image) ==
    IF foot_image.user # ""
    THEN request.user # "" /\ foot_image.user = request.user
    ELSE IF request.header # "" /\ foot_image.guest_session # ""
         THEN foot_image.guest_session = request.header
         ELSE /\ request.session_key # <<>>
              /\ foot_image.error_message # <<>>
              /\ StartsWith(foot_image.error_message,
                            GUEST_SESSION_TAG \o request.session_key)

\* FootImageDetailView.get
Detail(request, pk) ==
    /\ response.endpoint \notin ReadEndpoints
    /\ response' = [NoResponse EXCEPT !.endpoint = "foot_image_detail",
                        !.request = request, !.pk = pk,
                        !.status = IF ~Stored(foot_images, pk) THEN 404
                                   ELSE IF has_access(request, foot_images[pk]) THEN 200
                                   ELSE 403,
                        !.image = IF Stored(foot_images, pk)
                                     /\ has_access(request, foot_images[pk])
                                  THEN pk ELSE 0]
    /\ UNCHANGED <<now, guest_sessions, foot_images, pending, completed_uploads>>
    /\ UNCHANGED <<scorer_vars, selector_vars>>

ScorerIdle ==
    /\ user = NoShoe
    /\ shoe = NoShoe
    /\ shoe_type = "general"
    /\ call = "none"
    /\ scores = NoScores
    /\ result = 0
    /\ raised = FALSE
    /\ shoe_row = NoRow
    /\ dims = NoDims
    /\ fit_category = ""
    /\ threads = [t \in Threads |-> IdleThread]
    /\ round_up = FALSE

InitWeb ==
    /\ ScorerIdle
    /\ SelectorIdle
    /\ now = Clock[1]
    /\ guest_sessions = [sid \in SessionIds |-> NoSession]
    /\ foot_images = [[id \in ImageIds |-> NoImage] EXCEPT
                          ![1] = LegacyImage(<<"k", "1">>, 0)]
    /\ pending = [id \in ImageIds |-> NoPending]
    /\ response = NoResponse
    /\ completed_uploads = [sid \in SessionIds |-> NoUpload]

NextWeb ==
    \/ Tick
    \/ \E request \in UploadRequests, valid \in BOOLEAN : UploadSave(request, valid)
    \/ \E id \in UploadIds : UploadCleanup(id)
    \/ \E id \in UploadIds : UploadFinish(id)
    \/ \E request \in Requests : LatestMeasurement(request)
    \/ \E request \in Requests : Recommendations(request)
    \/ \E request \in Requests, pk \in ImageIds : Detail(request, pk)

SpecWeb == InitWeb /\ [][NextWeb]_vars

-----------------------------------------------------------------------------
(* record_attempt: inside transaction.atomic() the row is read              *)
(* (refresh_from_db), the counters are changed on the instance, and the     *)
(* three fields are written back (save(update_fields=...)) and committed.   *)
(* Nothing locks the row between the read and the write.                    *)

\* The fields record_attempt writes: those of the refreshed instance, changed.
record_attempt_row(w) ==
    [total_attempts |-> workers[w].row.total_attempts + 1,
     success_count |-> workers[w].row.success_count
                           + (IF workers[w].success THEN 1 ELSE 0),
     last_success |-> IF workers[w].success THEN <<w, workers[w].calls + 1>>
                      ELSE workers[w].row.last_success]

\* with transaction.atomic(): self.refresh_from_db()
RecordRefresh(w, success) ==
    /\ workers[w].pc = "idle"
    /\ workers[w].calls < MaxCalls
    /\ workers' = [workers EXCEPT ![w].pc = "refreshed", ![w].success = success,
                                  ![w].row = selector]
    /\ UNCHANGED selector
    /\ UNCHANGED <<scorer_vars, web_vars>>

\* self.total_attempts += 1; ...; self.save(update_fields=[...]); commit
RecordSave(w) ==
    /\ workers[w].pc = "refreshed"
    /\ selector' = record_attempt_row(w)
    /\ workers' = [workers EXCEPT ![w].pc = "idle",
                                  ![w].calls = @ + 1,
                                  ![w].successes = @ + (IF workers[w].success THEN 1 ELSE 0)]
    /\ UNCHANGED <<scorer_vars, web_vars>>

InitSelector ==
    /\ ScorerIdle
    /\ WebIdle
    /\ SelectorIdle

NextSelector ==
    \E w \in Workers :
        \/ \E success \in BOOLEAN : RecordRefresh(w, success)
        \/ RecordSave(w)

SpecSelector == InitSelector /\ [][NextSelector]_vars

InitCatalog == InitWith(CatalogFeet)

NextCatalog == ResolveShoe(CatalogRows) \/ NextShoe

SpecCatalog == InitCatalog /\ [][NextCatalog]_vars

-----------------------------------------------------------------------------
(* Properties                                                              *)

Called4D == call = "enhanced_score_shoe_4d"

CalledLegacy == call = "enhanced_score_shoe"

Computed == scores # NoScores

\* One of the four required dimensions of the call in the state is None, zero
\* or negative.
RequiredInvalid ==
    \E v \in {user.length, user.width, shoe.length, shoe.width} : v = None \/ v[1] <= 0

InRange(x) == 0 <= x /\ x <= 100000

\* C1: both entry points return exactly 0, without raising, whenever one of
\* user_length, user_width, shoe_length, shoe_width is None, zero or negative,
\* whatever the area, the perimeter and the shoe type are.
C1_InvalidInputZero ==
    (call # "none" /\ RequiredInvalid) => (result = 0 /\ ~raised /\ ~Computed)

\* A 4D call with a zero shoe width and every other argument present and positive.
C1_Witness ==
    /\ Called4D
    /\ shoe.width = Some(0)
    /\ user.length = Some(1050) /\ user.width = Some(400) /\ shoe.length = Some(1075)
    /\ Truthy(user.area) /\ Truthy(user.perimeter)
    /\ Truthy(shoe.area) /\ Truthy(shoe.perimeter)
    /\ result = 0

\* C2: for every combination of numeric or absent arguments and every shoe type
\* enhanced_score_shoe_4d returns, without raising, a score in [0, 100], and each
\* sub-score it computes lies in [0, 100].
C2_ScoreInRange ==
    Called4D =>
        /\ ~raised
        /\ 0 <= result /\ result <= 1000
        /\ Computed => /\ InRange(scores.length)
                       /\ InRange(scores.width)
                       /\ InRange(scores.perimeter)
                       /\ InRange(scores.area)

\* A scored call whose optional arguments are negative, absent and zero and whose
\* foot is 0.08 in wide against a 4 in shoe.
C2_Witness ==
    /\ Called4D /\ Computed /\ ~raised
    /\ user.width = Some(8) /\ shoe.width = Some(400)
    /\ user.area = Some(-2900) /\ user.perimeter = Some(0)
    /\ shoe.area = Some(-3000) /\ shoe.perimeter = None
    /\ scores.width = 5000
    /\ result > 0

\* C3: for valid required inputs the result is the weighted sum 0.375 length +
\* 0.275 width + 0.225 perimeter + 0.125 area (weights summing to 1) rounded to
\* one decimal, i.e. within half a tenth of the sum (and the model's resolution
\* of 0.0005 point), and clamped to [0, 100].
C3_WeightedSum ==
    (Called4D /\ Computed) =>
        LET total == 375 * scores.length + 275 * scores.width
                     + 225 * scores.perimeter + 125 * scores.area
        IN  /\ 375 + 275 + 225 + 125 = 1000
            /\ 0 <= result /\ result <= 1000
            /\ Abs(100000 * result - total) <= 50000 + 500

\* A scored call whose four sub-scores differ from one another.
C3_Witness ==
    /\ Called4D /\ Computed
    /\ Cardinality({scores.length, scores.width, scores.perimeter, scores.area}) = 4
    /\ result > 0 /\ result < 1000

\* The clearances of the call in the state.
Clearances == get_clearances_by_shoe_type(shoe_type)

\* The length table of the specification, on ratio = n / d, in thousandths.
SpecLengthTable(n, d) ==
    CASE 100 * n <= 95 * d -> 85000 + Milli(15 * 100 * n, 95 * d)
      [] 95 * d < 100 * n /\ 100 * n <= 100 * d -> 95000 + Milli(5 * n, d)
      [] 100 * d < 100 * n /\ 100 * n <= 102 * d -> 95000 - Milli(15 * (100 * n - 100 * d), 2 * d)
      [] 102 * d < 100 * n /\ 100 * n <= 105 * d -> 80000 - Milli(25 * (100 * n - 102 * d), 3 * d)
      [] 105 * d < 100 * n /\ 100 * n <= 110 * d -> 55000 - Milli(35 * (100 * n - 105 * d), 5 * d)
      [] 110 * d < 100 * n ->
            Max(5000, 20000 - Milli(15 * Min(100 * n - 110 * d, 5 * d), 5 * d))

\* C4: for valid inputs the length sub-score is the specification's table applied
\* to ratio = (user_length + length clearance) / shoe_length; it is never below 5
\* and equals 5 for every ratio >= 1.15.
C4_LengthCurve ==
    (Called4D /\ Computed) =>
        LET n == user.length[1] + Clearances.length
            d == shoe.length[1]
        IN  /\ scores.length = SpecLengthTable(n, d)
            /\ scores.length >= 5000
            /\ 100 * n >= 115 * d => scores.length = 5000

\* A hiking shoe of 9.5 in for a foot of 11 in: ratio 1.22, beyond the cap.
C4_Witness ==
    /\ Called4D /\ Computed
    /\ 100 * (user.length[1] + Clearances.length) > 115 * shoe.length[1]
    /\ scores.length = 5000

\* The width table of the specification, on diff_ratio = n / d, in thousandths.
SpecWidthTable(n, d) ==
    CASE 100 * n <= 5 * d -> 100000 - Milli(200 * n, d)
      [] 5 * d < 100 * n /\ 100 * n <= 10 * d -> 90000 - Milli(20 * (100 * n - 5 * d), 5 * d)
      [] 10 * d < 100 * n /\ 100 * n <= 15 * d -> 70000 - Milli(30 * (100 * n - 10 * d), 5 * d)
      [] 15 * d < 100 * n /\ 100 * n <= 20 * d -> 40000 - Milli(25 * (100 * n - 15 * d), 5 * d)
      [] 20 * d < 100 * n -> Max(5000, 15000 - Milli(Min(100 * n - 20 * d, 10 * d), d))

\* C5: the width sub-score is the specification's table applied to diff_ratio =
\* |user_width + width clearance - shoe_width| / shoe_width alone: the adjusted
\* foot mirrored to the other side of the shoe width scores the same, a foot
\* 0.01 in further from the shoe width never scores higher, and the floor is 5.
C5_WidthSymmetric ==
    (Called4D /\ Computed) =>
        LET a == user.width[1] + Clearances.width
            s == shoe.width[1]
            further == IF a >= s THEN a + 1 ELSE a - 1
        IN  /\ scores.width = SpecWidthTable(Abs(a - s), s)
            /\ width_axis(2 * s - a, s) = scores.width
            /\ width_axis(further, s) <= scores.width
            /\ scores.width >= 5000

\* An adjusted foot narrower than the shoe by more than 5% of the shoe width.
C5_Witness ==
    /\ Called4D /\ Computed
    /\ user.width[1] + Clearances.width < shoe.width[1]
    /\ 100 * (shoe.width[1] - user.width[1] - Clearances.width) > 5 * shoe.width[1]
    /\ scores.width < 90000
    /\ scores.width > 5000

\* Both perimeters (both areas) of the call are present: measured, positive values.
BothPerimeters ==
    /\ user.perimeter # None /\ user.perimeter[1] > 0
    /\ shoe.perimeter # None /\ shoe.perimeter[1] > 0

BothAreas ==
    /\ user.area # None /\ user.area[1] > 0
    /\ shoe.area # None /\ shoe.area[1] > 0

\* C6: with both perimeters present the perimeter sub-score is the zone function
\* of ratio = (user_perimeter + perimeter clearance) / shoe_perimeter: 100 on
\* [0.90, 1.08], in [85, 100] on [0.85, 0.90), at least 10 below 0.85, in [75, 100]
\* on (1.08, 1.12], in [25, 75] on (1.12, 1.18], at least 5 beyond 1.18.
C6_PerimeterZones ==
    (Called4D /\ Computed /\ BothPerimeters) =>
        LET n == 100 * (user.perimeter[1] + Clearances.perimeter)
            d == shoe.perimeter[1]
            sc == scores.perimeter
        IN  /\ (90 * d <= n /\ n <= 108 * d) => sc = 100000
            /\ (85 * d <= n /\ n < 90 * d) => (85000 <= sc /\ sc <= 100000)
            /\ n < 85 * d => sc >= 10000
            /\ (108 * d < n /\ n <= 112 * d) => (75000 <= sc /\ sc <= 100000)
            /\ (112 * d < n /\ n <= 118 * d) => (25000 <= sc /\ sc <= 75000)
            /\ n > 118 * d => sc >= 5000

\* A perimeter ratio in the tight-wearable zone (1.12, 1.18], scored strictly
\* between 25 and 75.
C6_Witness ==
    /\ Called4D /\ Computed /\ BothPerimeters
    /\ 100 * (user.perimeter[1] + Clearances.perimeter) > 112 * shoe.perimeter[1]
    /\ 100 * (user.perimeter[1] + Clearances.perimeter) <= 118 * shoe.perimeter[1]
    /\ scores.perimeter > 25000 /\ scores.perimeter < 75000

\* C7: with both areas present the area sub-score is the zone function of ratio =
\* user_area * (1 + area clearance) / shoe_area: 100 on [0.88, 1.02], in [90, 100]
\* on [0.80, 0.88), at least 20 below 0.80, in [80, 100] on (1.02, 1.08], in
\* [30, 80] on (1.08, 1.15], at least 10 beyond 1.15.
C7_AreaZones ==
    (Called4D /\ Computed /\ BothAreas) =>
        LET n == user.area[1] * (100 + Clearances.area)
            d == shoe.area[1]
            sc == scores.area
        IN  /\ (88 * d <= n /\ n <= 102 * d) => sc = 100000
            /\ (80 * d <= n /\ n < 88 * d) => (90000 <= sc /\ sc <= 100000)
            /\ n < 80 * d => sc >= 20000
            /\ (102 * d < n /\ n <= 108 * d) => (80000 <= sc /\ sc <= 100000)
            /\ (108 * d < n /\ n <= 115 * d) => (30000 <= sc /\ sc <= 80000)
            /\ n > 115 * d => sc >= 10000

\* An area ratio in the tight zone (1.08, 1.15], scored strictly between 30 and 80.
C7_Witness ==
    /\ Called4D /\ Computed /\ BothAreas
    /\ user.area[1] * (100 + Clearances.area) > 108 * shoe.area[1]
    /\ user.area[1] * (100 + Clearances.area) <= 115 * shoe.area[1]
    /\ scores.area > 30000 /\ scores.area < 80000

\* The curve f changes by at most 0.02 point when the ratio moves by 1/(100 d)
\* from the boundary b (in hundredths) to either side of it.
ContinuousAt(f(_, _), b, d) ==
    /\ Abs(f(b * d + 1, 100 * d) - f(b * d, 100 * d)) <= 20
    /\ Abs(f(b * d, 100 * d) - f(b * d - 1, 100 * d)) <= 20

LengthContinuous(d) == \A b \in {95, 100, 102, 105, 110} : ContinuousAt(length_score, b, d)

WidthContinuous(d) == \A b \in {5, 10, 15, 20} : ContinuousAt(width_score, b, d)

PerimeterContinuous(d) ==
    \A b \in {85, 90, 108, 112, 118} : ContinuousAt(perimeter_score, b, d)

AreaContinuous(d) == \A b \in {80, 88, 102, 108, 115} : ContinuousAt(area_score, b, d)

\* C8: each of the four curves is continuous at each of its zone boundaries: for
\* the shoe of the call, a foot whose ratio is 10^-5 or less to either side of a
\* boundary scores within 0.02 point of the foot exactly on it, and a foot 0.01
\* in longer than the one of the call scores within the steepest slope of the
\* length table (15 points per 0.02 of ratio, 25 per 0.03) of the call's score.
C8_Continuous ==
    (Called4D /\ Computed) =>
        /\ LengthContinuous(shoe.length[1])
        /\ WidthContinuous(shoe.width[1])
        /\ shoe.perimeter # None => PerimeterContinuous(shoe.perimeter[1])
        /\ shoe.area # None => AreaContinuous(shoe.area[1])
        /\ LET n == user.length[1] + Clearances.length
               d == shoe.length[1]
           IN  scores.length - length_score(n + 1, d) <= (834000 \div d) + 2

\* The estimates the fallback computes for the call in the state.
EstUserPerimeter == estimate_foot_perimeter_from_dimensions(user.length, user.width)

EstShoePerimeter == estimate_shoe_perimeter_from_dimensions(shoe.length, shoe.width)

EstUserArea == estimate_foot_area_from_dimensions(user.length, user.width)

EstShoeArea == estimate_shoe_area_from_dimensions(shoe.length, shoe.width)

PerimeterAbsent == user.perimeter = None \/ shoe.perimeter = None

AreaAbsent == user.area = None \/ shoe.area = None

\* C9: with the four required dimensions valid, an absent perimeter (area) gives
\* the perimeter (area) sub-score the zone function has for the ratio of the
\* estimated foot value to the estimated shoe value, whatever the other axis
\* has, and the call returns a composite in [0, 100] without raising.
C9_FallbackZones ==
    (Called4D /\ ~RequiredInvalid) =>
        /\ ~raised
        /\ Computed
        /\ 0 <= result /\ result <= 1000
        /\ PerimeterAbsent =>
              scores.perimeter = perimeter_score(
                  RatioNum(EstUserPerimeter[1], EstShoePerimeter[1]),
                  RatioDen(EstShoePerimeter[1]))
        /\ AreaAbsent =>
              scores.area = area_score(RatioNum(EstUserArea[1], EstShoeArea[1]),
                                       RatioDen(EstShoeArea[1]))

\* C10: every sub-score is the curve of its axis on the clearance-adjusted foot
\* value against the raw shoe value, the measured values when both are present
\* and the estimated ones otherwise: length, width and perimeter plus the
\* allowance of the shoe type, area times (1 + area fraction).
C10_ClearanceAdjusted ==
    (Called4D /\ Computed) =>
        /\ scores.length = length_score(user.length[1] + Clearances.length, shoe.length[1])
        /\ scores.width = width_axis(user.width[1] + Clearances.width, shoe.width[1])
        /\ scores.perimeter =
              IF PerimeterAbsent
              THEN perimeter_score(EstUserPerimeter[1] + Clearances.perimeter,
                                   EstShoePerimeter[1])
              ELSE perimeter_score(user.perimeter[1] + Clearances.perimeter,
                                   shoe.perimeter[1])
        /\ scores.area =
              IF AreaAbsent
              THEN area_score(EstUserArea[1] * (100 + Clearances.area), 100 * EstShoeArea[1])
              ELSE area_score(user.area[1] * (100 + Clearances.area), 100 * shoe.area[1])

\* The clearance table of the specification, in hundredths of an inch and percent.
SpecClearanceRow(t) ==
    CASE t = "running" -> [length |-> 50, width |-> 8, perimeter |-> 40, area |-> 15]
      [] t = "hiking"  -> [length |-> 60, width |-> 12, perimeter |-> 60, area |-> 20]
      [] t = "casual"  -> [length |-> 25, width |-> 4, perimeter |-> 20, area |-> 10]
      [] t = "work"    -> [length |-> 40, width |-> 8, perimeter |-> 30, area |-> 12]
      [] OTHER         -> [length |-> 25, width |-> 4, perimeter |-> 20, area |-> 10]

\* The outcome of a 4D call on the measurements in the state with shoe type t.
Outcome4D(t) ==
    enhanced_score_shoe_4d(user.length, user.width, user.area, user.perimeter,
                           shoe.length, shoe.width, shoe.area, shoe.perimeter, t)

\* C11: get_clearances_by_shoe_type returns the fixed row of 'running', 'hiking',
\* 'casual' and 'work' and the casual row for every other value, every allowance
\* is positive, hiking.length >= running.length > casual.length, and a call with
\* an unrecognised shoe type has the outcome of the same call with 'casual'.
C11_ClearancesTotal ==
    Called4D =>
        /\ Clearances = SpecClearanceRow(shoe_type)
        /\ \A f \in {"length", "width", "perimeter", "area"} : Clearances[f] > 0
        /\ get_clearances_by_shoe_type("hiking").length
              >= get_clearances_by_shoe_type("running").length
        /\ get_clearances_by_shoe_type("running").length
              > get_clearances_by_shoe_type("casual").length
        /\ shoe_type \notin {"running", "hiking", "casual", "work"} =>
              /\ Clearances = get_clearances_by_shoe_type("casual")
              /\ raised = Outcome4D("casual").raised
              /\ scores = Outcome4D("casual").scores
              /\ result \in Outcome4D("casual").values

\* A computed score for a shoe type that is not a key of the table.
C11_Witness ==
    /\ Called4D /\ Computed
    /\ shoe_type \in {"general", "", "None"}
    /\ Clearances.length = 25
    /\ result > 0

\* The 4D call the legacy entry point is specified to equal: the estimates of
\* both sides as measured values, shoe type 'casual'.
LegacyAs4D ==
    enhanced_score_shoe_4d(user.length, user.width, EstUserArea, EstUserPerimeter,
                           shoe.length, shoe.width, EstShoeArea, EstShoePerimeter,
                           "casual")

\* C12: for valid length and width on both sides, enhanced_score_shoe returns what
\* enhanced_score_shoe_4d returns for the foot-side estimates of (l, w), the
\* shoe-side estimates of (sl, sw) and shoe type 'casual'.
C12_LegacyEquals4D ==
    (CalledLegacy /\ ~RequiredInvalid) =>
        /\ ~raised
        /\ ~LegacyAs4D.raised
        /\ scores = LegacyAs4D.scores
        /\ result \in LegacyAs4D.values

\* A legacy call whose area sub-score shows the casual allowance on the estimate:
\* below 100, where the unadjusted estimates are in the perfect zone.
C12_Witness ==
    /\ CalledLegacy /\ Computed
    /\ scores.area < 100000
    /\ estimate_area_score(user.length, user.width, shoe.length, shoe.width) = Some(100000)

CalledResolve == call = "get_real_shoe_dimensions_4d"

\* The row has both insole_length and insole_width (measured, non-zero values).
HasInsole ==
    /\ shoe_row.has_attrs
    /\ shoe_row.insole_length # None /\ shoe_row.insole_length[1] > 0
    /\ shoe_row.insole_width # None /\ shoe_row.insole_width[1] > 0

\* C13: for a shoe with both insole_length and insole_width the resolver returns
\* exactly these two as length and width, the stored insole_area and
\* insole_perimeter where present and the shoe-side estimate of that length and
\* width otherwise, and all four returned values are positive.
C13_MeasuredDimensions ==
    (CalledResolve /\ HasInsole) =>
        /\ ~raised
        /\ dims.length = 100 * shoe_row.insole_length[1]
        /\ dims.width = 100 * shoe_row.insole_width[1]
        /\ IF shoe_row.insole_area # None /\ shoe_row.insole_area[1] > 0
           THEN dims.area = shoe_row.insole_area[1]
           ELSE dims.area \in estimate_shoe_area_e4(dims.length, dims.width)
        /\ IF shoe_row.insole_perimeter # None /\ shoe_row.insole_perimeter[1] > 0
           THEN dims.perimeter = shoe_row.insole_perimeter[1]
           ELSE dims.perimeter = estimate_shoe_perimeter_e4(dims.length, dims.width)
        /\ dims.length > 0 /\ dims.width > 0 /\ dims.area > 0 /\ dims.perimeter > 0

\* The row takes the static tables: it lacks insole_length or insole_width and
\* its us_size is a number.
TablePath ==
    /\ shoe_row.has_attrs
    /\ ~(Truthy(shoe_row.insole_length) /\ Truthy(shoe_row.insole_width))
    /\ shoe_row.us_size.kind = "decimal"

\* The size table of the specification: sizes 7 to 13 in half steps, in 10^-4 in.
SpecSizeTable ==
    [sz \in {70 + 5 * k : k \in 0 .. 12} |->
        CASE sz = 70 -> 96250 [] sz = 75 -> 97500 [] sz = 80 -> 99375
          [] sz = 85 -> 101250 [] sz = 90 -> 102500 [] sz = 95 -> 104375
          [] sz = 100 -> 105625 [] sz = 105 -> 107500 [] sz = 110 -> 109375
          [] sz = 115 -> 111250 [] sz = 120 -> 112500 [] sz = 125 -> 114375
          [] sz = 130 -> 116250]

\* C14: for a shoe lacking insole_length or insole_width the resolver takes the
\* length from the size table (strictly increasing from 9.625 at size 7 to 11.625
\* at size 13, 10.75 at size 10.5) or 10.0 for a size outside it, the width 3.4 /
\* 3.6 / 3.8 for N / D / W and 3.6 for any other category, and the area and the
\* perimeter from the shoe-side estimators on these two, whatever insole_area
\* and insole_perimeter the row holds.
C14_StaticTable ==
    (CalledResolve /\ TablePath) =>
        LET sz == shoe_row.us_size.tenths
            cat == shoe_row.width_category
        IN  /\ ~raised
            /\ dims.length = IF sz \in DOMAIN SpecSizeTable THEN SpecSizeTable[sz]
                             ELSE 100000
            /\ dims.width = CASE cat = "N" -> 34000 [] cat = "D" -> 36000
                              [] cat = "W" -> 38000 [] OTHER -> 36000
            /\ dims.area \in estimate_shoe_area_e4(dims.length, dims.width)
            /\ dims.perimeter = estimate_shoe_perimeter_e4(dims.length, dims.width)
            /\ \A a \in DOMAIN SpecSizeTable : \A b \in DOMAIN SpecSizeTable :
                  a < b => US_MENS_SIZE_TO_LENGTH(a) < US_MENS_SIZE_TO_LENGTH(b)
            /\ US_MENS_SIZE_TO_LENGTH(70) = 96250
            /\ US_MENS_SIZE_TO_LENGTH(105) = 107500
            /\ US_MENS_SIZE_TO_LENGTH(130) = 116250

\* Size 10.5, category D, a stored insole_area but no insole_length: 10.75 by
\* 3.6 with the estimated area.
C14_Witness ==
    /\ CalledResolve /\ TablePath
    /\ shoe_row.us_size.tenths = 105
    /\ shoe_row.width_category = "D"
    /\ shoe_row.insole_area = Some(2900)
    /\ dims.length = 107500 /\ dims.width = 36000
    /\ dims.area # 2900

\* The call met an internal error: the object has no Shoe attributes, or the
\* table path found us_size missing, None or not a number.
InternalError ==
    \/ ~shoe_row.has_attrs
    \/ /\ ~(Truthy(shoe_row.insole_length) /\ Truthy(shoe_row.insole_width))
       /\ shoe_row.us_size.kind \in {"missing", "none", "text"}

\* C15: get_real_shoe_dimensions_4d never lets an exception reach its caller, and
\* on an internal error (a missing attribute, an absent or non-numeric us_size)
\* it returns the safe default (10.0, 3.6, 27.0, 28.0).
C15_NeverRaises ==
    CalledResolve =>
        /\ ~raised
        /\ InternalError => dims = SafeDefault.dims

-----------------------------------------------------------------------------
(* The calibration of the composite score on the adult range.              *)

AdultRange ==
    /\ user.length # None /\ 800 <= user.length[1] /\ user.length[1] <= 1300
    /\ user.width # None /\ 300 <= user.width[1] /\ user.width[1] <= 500

OwnSize == shoe # NoShoe /\ shoe.length = user.length /\ shoe.width = user.width

\* Area and perimeter are estimated on both sides: the legacy entry point
\* estimates them itself, the 4D scorer does when given none of the four.
EstimatedBothSides ==
    \/ CalledLegacy
    \/ /\ Called4D
       /\ shoe_type = "casual"
       /\ user.area = None /\ user.perimeter = None
       /\ shoe.area = None /\ shoe.perimeter = None

\* The reference pair score(10.5, 3.8, 26.25, 25.5, 10.5, 3.8, 28.125, 27.0,
\* 'casual').  The two areas are given in thousandths of a square inch: the area
\* branch uses nothing but their ratio.
ReferencePair ==
    enhanced_score_shoe_4d(Some(1050), Some(380), Some(26250), Some(2550),
                           Some(1050), Some(380), Some(28125), Some(2700), "casual")

\* C16: for a foot in the adult range and a casual shoe of the foot's own length
\* and width, area and perimeter estimated on both sides, the composite score
\* is at least 85; the reference pair scores at least 80.
C16_OwnSizeExcellent ==
    /\ (AdultRange /\ OwnSize /\ EstimatedBothSides)
           => (~raised /\ result >= 10 * FIT_EXCELLENT)
    /\ ~ReferencePair.raised
    /\ \A v \in ReferencePair.values : v >= 800

C16_Witness ==
    /\ AdultRange /\ OwnSize /\ EstimatedBothSides /\ Called4D
    /\ user.length = Some(800) /\ user.width = Some(300)
    /\ ~raised
    /\ result = 883

\* A shoe of the foot's length and 10% narrower than the foot.
NarrowShoe ==
    /\ shoe # NoShoe
    /\ shoe.length = user.length
    /\ shoe.width = Some((9 * user.width[1]) \div 10)
    /\ 10 * shoe.width[1] = 9 * user.width[1]

\* C17: a casual shoe of the foot's length and 10% narrower than the foot scores
\* above 20 for every foot in the adult range, whatever the areas and
\* perimeters of foot and shoe are, present or absent.
C17_NarrowAboveTwenty ==
    (AdultRange /\ NarrowShoe /\ Called4D /\ shoe_type = "casual")
        => (~raised /\ result > 200)

\* The case with all four areas and perimeters present and as far apart as the
\* domain allows.
C17_Witness ==
    /\ AdultRange /\ NarrowShoe /\ Called4D /\ shoe_type = "casual"
    /\ user.area = Some(9000) /\ user.perimeter = Some(9000)
    /\ shoe.area = Some(500) /\ shoe.perimeter = Some(500)
    /\ ~raised
    /\ result > 200 /\ result < 10 * FIT_GOOD

-----------------------------------------------------------------------------
(* Hiking against casual.                                                  *)

\* Dimension dim of the shoe does not exceed the foot's (an absent value exceeds
\* nothing).
NotAbove(dim) ==
    (shoe[dim] # None /\ user[dim] # None) => shoe[dim][1] <= user[dim][1]

NoneExceeds ==
    /\ shoe # NoShoe
    /\ shoe.length # None /\ shoe.width # None
    /\ user.length # None /\ user.width # None
    /\ \A dim \in {"length", "width", "area", "perimeter"} : NotAbove(dim)

\* The call in the state is a returned 'hiking' call on a shoe none of whose
\* dimensions exceeds the foot's, and the same call with 'casual' returns too.
HikingCall ==
    /\ Called4D
    /\ shoe_type = "hiking"
    /\ ~raised
    /\ NoneExceeds
    /\ ~Outcome4D("casual").raised

HikingNeverHigher ==
    HikingCall => result <= SetMax(Outcome4D("casual").values)

\* The foot's length with the casual allowance is at most 1.10 times the shoe's
\* length: the casual length score is above its last zone.
CasualLengthInZones == 100 * (user.length[1] + 25) <= 110 * shoe.length[1]

\* All four dimensions are given for the foot and for the shoe.
AllFourPresent ==
    \A dim \in {"length", "width", "area", "perimeter"} :
        user[dim] # None /\ shoe[dim] # None

\* C18 as stated: hiking never scores higher than casual when no dimension of
\* the shoe exceeds the foot's, and strictly lower for every foot in the adult
\* range (read with all four dimensions given on both sides).
C18_HikingStrictlyLower ==
    /\ HikingNeverHigher
    /\ (HikingCall /\ AdultRange /\ AllFourPresent)
           => result < SetMax(Outcome4D("casual").values)

\* C18, amended: hiking never scores higher than casual when no dimension of
\* the shoe exceeds the foot's, and strictly lower when moreover the foot is in
\* the adult range and its length plus the casual allowance of 0.25 in is at
\* most 1.10 times the shoe's length.
C18_HikingLower ==
    /\ HikingNeverHigher
    /\ (HikingCall /\ AdultRange /\ CasualLengthInZones)
           => result < SetMin(Outcome4D("casual").values)

C18_Witness ==
    /\ HikingCall /\ AdultRange /\ CasualLengthInZones /\ AllFourPresent
    /\ result < SetMin(Outcome4D("casual").values)

-----------------------------------------------------------------------------
(* The fit category.                                                       *)

\* Every score the scorer can return: 0.0 to 100.0 in tenths of a point.
AllScores == 0 .. 1000

\* The bands as the specification tabulates them.
SpecFitBand(score) ==
    CASE score >= 850                  -> "Excellent"
      [] 650 <= score /\ score < 850   -> "Good"
      [] 450 <= score /\ score < 650   -> "Fair"
      [] score < 450                   -> "Poor"

CategoryRank(category) ==
    CASE category = "Excellent" -> 3
      [] category = "Good"      -> 2
      [] category = "Fair"      -> 1
      [] category = "Poor"      -> 0

\* The cascade over every score: one of the four categories, the one of the
\* specification's band, and never a worse one for the next score up.
FitCategoryTable ==
    \A score \in AllScores :
        /\ get_fit_category(score) \in {"Excellent", "Good", "Fair", "Poor"}
        /\ get_fit_category(score) = SpecFitBand(score)
        /\ score < 1000 => CategoryRank(get_fit_category(score))
                               <= CategoryRank(get_fit_category(score + 1))

\* C19: the fit category is Excellent for a score of at least 85, Good from 65,
\* Fair from 45 and Poor below; every score from 0 to 100 gets exactly one of
\* the four categories, a higher score never gets a worse one, and the category
\* attached to a returned score is the one of its band.  The table does not
\* depend on the state and is evaluated in the states between two calls.
C19_FitCategory ==
    /\ call = "none" => FitCategoryTable
    /\ fit_category # "" => (~raised /\ fit_category = SpecFitBand(result))

\* A score exactly on the Good threshold has been categorised.
C19_Witness ==
    /\ Called4D
    /\ result = 10 * FIT_GOOD
    /\ fit_category = "Good"

-----------------------------------------------------------------------------
(* Determinism and statelessness of the composite scorer.                  *)

\* The outcome of the scorer, run on its own, on the arguments of thread t.
ThreadOutcome(t) ==
    LET th == threads[t]
    IN  enhanced_score_shoe_4d(th.user.length, th.user.width, th.user.area,
                               th.user.perimeter, th.shoe.length, th.shoe.width,
                               th.shoe.area, th.shoe.perimeter, th.shoe_type)

SameArguments(t, u) ==
    /\ threads[t].user = threads[u].user
    /\ threads[t].shoe = threads[u].shoe
    /\ threads[t].shoe_type = threads[u].shoe_type

\* A finished call holds what the scorer returns on its arguments, whatever the
\* other thread did meanwhile, and two finished calls with the same arguments
\* hold the same result.
ThreadsAgree ==
    /\ \A t \in Threads :
           threads[t].pc = "done" =>
               /\ threads[t].raised = ThreadOutcome(t).raised
               /\ ~threads[t].raised =>
                      threads[t].result = float_round(ThreadOutcome(t).values)
    /\ \A t, u \in Threads :
           (threads[t].pc = "done" /\ threads[u].pc = "done" /\ SameArguments(t, u))
               => /\ threads[t].result = threads[u].result
                  /\ threads[t].raised = threads[u].raised

\* A step of the scorer changes the locals of one call and nothing else.
ThreadsIsolated ==
    /\ \A t, u \in Threads :
           (t # u /\ threads'[t] # threads[t]) => threads'[u] = threads[u]
    /\ UNCHANGED <<user, shoe, shoe_type, call, scores, result, raised, shoe_row, dims,
                   fit_category, round_up, web_vars, selector_vars>>

\* C20: the composite scorer is deterministic and stateless: a call returns
\* what the scorer returns on its arguments however the calls of the threads
\* interleave, two calls with identical arguments return identical results, and
\* a step of a call changes nothing but the locals of that call.
C20_Deterministic == [](ThreadsAgree) /\ [][ThreadsIsolated]_vars

\* Both threads have finished a call on the same valid arguments, whose
\* weighted sum lies between two tenths.
C20_Witness ==
    /\ threads[1].pc = "done" /\ threads[2].pc = "done"
    /\ SameArguments(1, 2)
    /\ threads[1].shoe_type = "hiking"
    /\ threads[1].scores.area >= 0
    /\ Cardinality(ThreadOutcome(1).values) = 2
    /\ threads[1].result > 0
    /\ threads[1].result = threads[2].result

-----------------------------------------------------------------------------
(* The estimators on positive dimensions.                                  *)

\* The bounds of the four estimates of a length l and a width w, in hundredths:
\* 0 < foot area <= shoe area < l * w, and foot perimeter > 2 * (l + w).
EstimatesBounded(length_inches, width_inches) ==
    LET foot_area == estimate_foot_area_from_dimensions(length_inches, width_inches)
        shoe_area == estimate_shoe_area_from_dimensions(length_inches, width_inches)
        foot_perimeter == estimate_foot_perimeter_from_dimensions(length_inches, width_inches)
    IN  /\ foot_area # None /\ shoe_area # None
        /\ 0 < foot_area[1]
        /\ foot_area[1] <= shoe_area[1]
        /\ 100 * shoe_area[1] < length_inches[1] * width_inches[1]
        /\ ~IsRaise(foot_perimeter) /\ foot_perimeter # None
        /\ foot_perimeter[1] > 2 * (length_inches[1] + width_inches[1])

\* C21: for all positive length and width the foot area estimate and the shoe
\* area estimate satisfy 0 < foot estimate <= shoe estimate < length * width,
\* and the foot perimeter estimate exceeds 2 * (length + width); stated of the
\* dimensions a legacy call has run the estimators on.
C21_EstimatorBounds ==
    CalledLegacy =>
        /\ (Positive(user.length) /\ Positive(user.width))
               => EstimatesBounded(user.length, user.width)
        /\ (Positive(shoe.length) /\ Positive(shoe.width))
               => EstimatesBounded(shoe.length, shoe.width)

-----------------------------------------------------------------------------
(* A returned 0 means invalid input.                                       *)

\* C27: whenever user_length, user_width, shoe_length and shoe_width are all
\* positive, enhanced_score_shoe_4d returns, without raising, at least 5.6 (the
\* weighted sum of the sub-score floors 5, 5, 5 and 10): a returned 0 always
\* means an invalid required input.
C27_ZeroOnlyForInvalid ==
    Called4D =>
        /\ ~RequiredInvalid => (~raised /\ Computed /\ result >= 56)
        /\ (~raised /\ result = 0) => RequiredInvalid

\* A call on positive dimensions with every sub-score on its floor.
C27_Witness ==
    /\ Called4D /\ ~RequiredInvalid /\ ~raised
    /\ scores = [length |-> 5000, width |-> 5000, perimeter |-> 5000, area |-> 10000]
    /\ result = 56

-----------------------------------------------------------------------------
(* The recommendations response.                                           *)

ActiveShoes == {id \in ShoeIds : Catalog(id).is_active}

\* C22: a successful recommendations response lists every active shoe of the
\* catalogue exactly once and no inactive shoe, total_analyzed is the number
\* of active shoes, and the fit scores do not increase along the list.
C22_RecommendationsComplete ==
    (response.endpoint = "recommendations" /\ response.status = 200) =>
        LET listed == response.recommendations
        IN  /\ {listed[i].shoe : i \in 1 .. Len(listed)} = ActiveShoes
            /\ \A i, j \in 1 .. Len(listed) : listed[i].shoe = listed[j].shoe => i = j
            /\ response.total_analyzed = Cardinality(ActiveShoes)
            /\ \A i \in 1 .. Len(listed) - 1 :
                   listed[i].fit_score >= listed[i + 1].fit_score

\* A response that lists three shoes, the best of them above the worst, while
\* an inactive shoe is in the catalogue.
C22_Witness ==
    /\ response.endpoint = "recommendations"
    /\ response.status = 200
    /\ Len(response.recommendations) = 3
    /\ response.recommendations[1].fit_score > response.recommendations[3].fit_score
    /\ ActiveShoes # ShoeIds

-----------------------------------------------------------------------------
(* The measurement a request is answered from.                             *)

\* The image id is the requester's: of the authenticated user, of the guest
\* session the X-Guest-Session-ID header names, or a legacy guest image tagged
\* with the session key of the request.
Owned(request, id) ==
    /\ Stored(foot_images, id)
    /\ IF request.user # ""
       THEN foot_images[id].user = request.user
       ELSE /\ foot_images[id].user = ""
            /\ \/ request.header # "" /\ foot_images[id].guest_session = request.header
               \/ /\ foot_images[id].guest_session = ""
                  /\ request.session_key # <<>>
                  /\ StartsWith(foot_images[id].error_message,
                                GUEST_SESSION_TAG \o request.session_key)

Usable(request) ==
    {id \in ImageIds : Owned(request, id) /\ foot_images[id].status = "complete"}

\* C23: latest-measurement and recommendations answer from the requester's
\* complete image uploaded last, never from an image in status 'processing' or
\* 'error'; a requester without a complete image gets 404 from
\* latest-measurement and 400, with no shoe scored, from recommendations.
C23_LatestCompleteOnly ==
    response.endpoint \in {"get_latest_measurement", "recommendations"} =>
        IF Usable(response.request) = {}
        THEN /\ response.status =
                    (IF response.endpoint = "recommendations" THEN 400 ELSE 404)
             /\ response.image = 0
             /\ response.recommendations = <<>>
             /\ response.total_analyzed = 0
        ELSE /\ response.status = 200
             /\ response.image \in Usable(response.request)
             /\ \A other \in Usable(response.request) :
                    foot_images[other].uploaded_at
                        <= foot_images[response.image].uploaded_at

\* Recommendations answered from a complete image while the requester's later
\* upload is in status 'processing' or 'error'.
C23_Witness ==
    /\ response.endpoint = "recommendations"
    /\ response.status = 200
    /\ \E id \in ImageIds :
           /\ Owned(response.request, id)
           /\ foot_images[id].status \in {"processing", "error"}
           /\ id > response.image
           /\ foot_images[id].uploaded_at > foot_images[response.image].uploaded_at

-----------------------------------------------------------------------------
(* The status of an uploaded FootImage.                                    *)

\* The image of a 201: complete with the four measurements, or in error with
\* a message and no measurement.
Answered201 ==
    (response.endpoint = "upload" /\ response.status = 201) =>
        LET foot_image == foot_images[response.image]
        IN  \/ /\ foot_image.status = "complete"
               /\ \A field \in {"length", "width", "area", "perimeter"} :
                      foot_image.measurement[field] # None
            \/ /\ foot_image.status = "error"
               /\ foot_image.error_message # <<>>
               /\ foot_image.measurement = NoShoe

\* A step changes the status of an uploaded image only from nothing to
\* 'processing', with the handler that creates it, and from 'processing' to
\* 'complete' or 'error', in the last step of that handler (which writes the
\* row again if the cascade of a session removed it meanwhile); a row that is
\* 'complete' or 'error' is left as it is or is deleted.
StatusStep ==
    \A id \in UploadIds :
        LET old == foot_images[id].status
            new == foot_images'[id].status
            started == pending[id].stage = "" /\ pending'[id].stage # ""
            finished == pending[id].stage # "" /\ pending'[id].stage = ""
        IN  /\ started <=> (old = "absent" /\ new = "processing")
            /\ old = "absent" => new \in {"absent", "processing"}
            /\ old = "processing" => new \in {"processing", "complete", "error", "deleted"}
            /\ old = "deleted" => new = "deleted" \/ (finished /\ new \in {"complete", "error"})
            /\ old \in {"complete", "error"} =>
                   foot_images'[id] = foot_images[id] \/ new = "deleted"
            /\ (new \in {"complete", "error"} /\ new # old) => finished
            /\ new = "processing" => old \in {"absent", "processing"}

-----------------------------------------------------------------------------
(* Whose measurement a response shows.                                     *)

-----------------------------------------------------------------------------
(* A guest's measurement after the upload.                                 *)

\* The response answers a guest whose upload under the session id of the
\* request has completed.
GuestAfterUpload ==
    /\ response.endpoint \in {"get_latest_measurement", "recommendations"}
    /\ response.request.user = ""
    /\ response.request.header \in SessionIds
    /\ completed_uploads[response.request.header].image # 0

\* C26: after a guest's upload has completed, a request of that guest for the
\* latest measurement or for recommendations that follows it (the guest has
\* made no other upload request since) succeeds and is answered from that
\* upload, or from an upload the same session made beside it.
C26_GuestUploadAnswered ==
    (GuestAfterUpload /\ ~completed_uploads[response.request.header].followed) =>
        /\ response.status = 200
        /\ foot_images[response.image].guest_session = response.request.header
        /\ response.image >= completed_uploads[response.request.header].image

\* The same while the session the upload was stored under is not more than
\* one hour old.
GuestUploadAnsweredWithinExpiry ==
    (/\ GuestAfterUpload
     /\ ~completed_uploads[response.request.header].followed
     /\ now - completed_uploads[response.request.header].session_created_at
            <= SESSION_EXPIRY_HOURS) =>
        /\ response.status = 200
        /\ foot_images[response.image].guest_session = response.request.header
        /\ response.image >= completed_uploads[response.request.header].image

\* C29: a guest's completed measurement stays retrievable through the
\* X-Guest-Session-ID of its session once the session is more than one hour
\* old, whatever uploads and cleanup runs have happened since.
C29_RetrievableAfterExpiry ==
    (/\ GuestAfterUpload
     /\ response.endpoint = "get_latest_measurement"
     /\ now - completed_uploads[response.request.header].session_created_at
            > SESSION_EXPIRY_HOURS) =>
        response.status = 200

-----------------------------------------------------------------------------
(* What a cleanup run removes.                                             *)

\* The step is a run of cleanup_old_guest_sessions.
CleanupRuns ==
    /\ response'.endpoint = "cleanup_old_guest_sessions"
    /\ \E id \in UploadIds : pending[id].stage = "saved" /\ pending'[id].stage = "cleaned"

RemovedSessions ==
    {sid \in SessionIds : guest_sessions[sid] \notin Missing
                             /\ guest_sessions'[sid] \in Missing}

RemovedImages ==
    {id \in ImageIds : Stored(foot_images, id) /\ ~Stored(foot_images', id)}

\* A legacy guest image: no user, no guest session, tagged GUEST_SESSION:.
LegacyGuestImage(id) ==
    /\ foot_images[id].user = ""
    /\ foot_images[id].guest_session = ""
    /\ StartsWith(foot_images[id].error_message, GUEST_SESSION_TAG)

CleanupFrame ==
    CleanupRuns =>
        /\ \A sid \in RemovedSessions : now - guest_sessions[sid] > SESSION_EXPIRY_HOURS
        /\ \A sid \in SessionIds \ RemovedSessions :
               guest_sessions'[sid] = guest_sessions[sid]
        /\ \A id \in RemovedImages :
               \/ foot_images[id].guest_session \in RemovedSessions
               \/ /\ LegacyGuestImage(id)
                  /\ now - foot_images[id].uploaded_at > LEGACY_EXPIRY_HOURS
        /\ \A id \in RemovedImages : foot_images[id].user = ""
        /\ \A id \in ImageIds \ RemovedImages : foot_images'[id] = foot_images[id]
        /\ response'.total_cleaned =
               Cardinality(RemovedSessions)
                   + Cardinality({id \in RemovedImages : LegacyGuestImage(id)})

\* C28: a run of cleanup_old_guest_sessions removes only guest sessions created
\* more than 1 hour before, with their images, and legacy guest images
\* uploaded more than 7 days before; the images of users, the other sessions
\* and the other images stay as they are, and the count returned is the
\* number of sessions plus the number of legacy images removed.
C28_CleanupFrame == [][CleanupFrame]_vars

\* A cleanup that has removed an expired session and a legacy image and has
\* left the image of a user.
C28_Witness ==
    /\ response.endpoint = "cleanup_old_guest_sessions"
    /\ response.total_cleaned = 2
    /\ \E id \in ImageIds : Stored(foot_images, id) /\ foot_images[id].user # ""
    /\ \E sid \in SessionIds : guest_sessions[sid] = DeletedSession

-----------------------------------------------------------------------------
(* The counters of a PriceSelector.                                        *)

RECURSIVE SumOver(_, _)
SumOver(field, ws) ==
    IF ws = {} THEN 0
    ELSE LET w == CHOOSE x \in ws : TRUE
         IN  workers[w][field] + SumOver(field, ws \ {w})

\* No call of record_attempt is under way.
AllReturned == \A w \in Workers : workers[w].pc = "idle"

\* success_count <= total_attempts in every state.
SuccessWithinAttempts == selector.success_count <= selector.total_attempts

\* C30: every call of record_attempt adds 1 to total_attempts and, when success
\* is true, 1 to success_count, so success_count <= total_attempts; no update
\* is lost when calls on the same selector run concurrently: once N calls
\* have returned total_attempts has grown by N (and success_count by the
\* number of calls with success true).
C30_NoLostUpdate ==
    /\ SuccessWithinAttempts
    /\ AllReturned =>
           /\ selector.total_attempts = SumOver("calls", Workers)
           /\ selector.success_count = SumOver("successes", Workers)

====
